---- MODULE Spec2Model ----
(***************************************************************************)
(* Model of the homeserverapi device-integration layer:                    *)
(*   - Wattpilot (src/src/wattpilot.rs): the charger WebSocket client,     *)
(*     its handshake, its receive loop and the merge of status messages;   *)
(*   - add_point / fetch_solar_values / get_data (src/src/utils.rs,        *)
(*     src/src/inverter.rs): the scheduler's export cycle;                 *)
(*   - get_values (src/src/api.rs): the reader of both snapshots;          *)
(*   - the loop of start (src/src/main.rs) with its wake-up delay;         *)
(*   - the three tokio RwLocks the tasks share.                            *)
(*                                                                         *)
(* Time is counted in whole seconds, with the millisecond within the       *)
(* second where the wake-up delay is computed.  Floats are held as         *)
(* integers counted in halves (a JSON integer n is the float 2*n halves,   *)
(* the JSON float "n.5" is 2*n+1 halves).                                  *)
(***************************************************************************)
EXTENDS Integers, Sequences, FiniteSets, TLC

VARIABLES
    now,            \* OffsetDateTime::now_utc(), in seconds
    millis,         \* OffsetDateTime::now_utc(): its millisecond within the second
    authMsg,        \* authenticate: the tokens received and the hash sent
    data,           \* Wattpilot.data: the charger snapshot (WattpilotData)
    history,        \* the text frames read_message has been called with, in arrival order
    authenticated,  \* Wattpilot.authenticated
    hashed_pw,      \* Wattpilot.hashed_pw
    wsink,          \* Wattpilot.write: TRUE when it holds Some(sink)
    cpc,            \* position of the main_handler task
    serial,         \* authenticate: hello_message.serial ("" outside authenticate)
    ended,          \* the WebSocket stream of the current connection has yielded an error
    authResp,       \* type of the last response to the auth message on this connection
    curMsg,         \* the text frame read_message is merging
    sleepFor,       \* duration (s) of the sleep main_handler is in, 0 when not sleeping
    connectFails,   \* consecutive failed connection attempts (saturating)
    locks,          \* guards alive on each RwLock: lock name -> set of <<task, mode>>
    wpConfigured,   \* Wattpilot::new returned Some
    no_db,          \* env::var("NO_DB").is_ok()
    spc,            \* position of the scheduler task (start loop and add_point)
    attempt,        \* get_data: number of loop iterations started
    fetched,        \* get_data: the SolarData it returned
    solar,          \* the solar snapshot (SolarData)
    notes,          \* health-check codes sent in the current cycle, in order
    wpOut,          \* add_point: the charger record chosen for export ("none" before)
    reqs,           \* get_data: how each request of the current call ended, in order
    nap,            \* duration (ms) of the scheduler's sleep, 0 when not in one
    postResp,       \* add_point: outcome of the POST to the time-series sink ("none" before)
    apc,            \* position of the get_values handler of the API
    apiOut          \* get_values: the charger snapshot cloned for the response

vars == << now, millis, authMsg, data, history, authenticated, hashed_pw, wsink,
           cpc, serial, ended,
           authResp, curMsg, sleepFor, connectFails, locks, wpConfigured, no_db,
           spc, attempt, fetched, solar, notes, wpOut, reqs, nap, postResp,
           apc, apiOut >>

clientVars == << authenticated, hashed_pw, wsink, cpc, serial, ended, authResp,
                 curMsg, sleepFor, connectFails >>
schedVars == << spc, attempt, fetched, solar, notes, wpOut, reqs, nap, postResp >>
apiVars == << apc, apiOut >>

----------------------------------------------------------------------------
(* Bounds of the model *)

MaxMsgs == 2            \* frames recorded in history
MaxElapsed == 31        \* seconds the clock may advance after start
StartTime == 100        \* clock value at program start (seconds after the epoch)
MaxConnectFails == 1    \* cap of the consecutive-failure counter

(* Program constants *)

UNIX_EPOCH == 0         \* OffsetDateTime::UNIX_EPOCH
StaleAfter == 30        \* add_point: age > 30f64
RetryDelay == 3         \* main_handler: sleep(Duration::from_secs(3))
NrgLen == 16            \* number of fields of ChargingValues
MaxAttempts == 3        \* get_data: for _ in 0..3
sleep_time == 100       \* get_data: Duration::from_millis(100)

TimeSteps == {StaleAfter, StaleAfter + 1}

----------------------------------------------------------------------------
(* JSON values (serde_json::Value).  Arrays hold scalars; the only object   *)
(* value is the empty object.                                               *)

JNull == [t |-> "null", n |-> 0, a |-> <<>>]
JInt(k) == [t |-> "int", n |-> k, a |-> <<>>]
JFloat(k) == [t |-> "float", n |-> k, a |-> <<>>]      \* the number k + 0.5
JStr == [t |-> "str", n |-> 0, a |-> <<>>]
JObj == [t |-> "obj", n |-> 0, a |-> <<>>]
JArr(s) == [t |-> "arr", n |-> 0, a |-> s]

IsNumber(v) == v.t \in {"int", "float"}

\* serde_json::from_value::<f64> / <f32>: any JSON number, as a float (in halves)
FloatOk(v) == IsNumber(v)
FloatOf(v) == IF v.t = "int" THEN 2 * v.n ELSE 2 * v.n + 1

\* serde_json::from_value::<i64>: integers only, a JSON float is a type error
I64Ok(v) == v.t = "int"
I64Of(v) == v.n

\* serde_repr on #[repr(u16)]: a u16 that is one of the discriminants
CarStateNames == << "Unknown", "Idle", "Charging", "WaitCar", "Complete", "Error" >>
CarStateOk(v) == v.t = "int" /\ v.n >= 0 /\ v.n < Len(CarStateNames)
CarStateOf(v) == CarStateNames[v.n + 1]

\* enum ModelStatus: the variant of each discriminant ("" where there is none)
ModelStatusNames ==
    << "NotChargingBecauseNoChargeCtrlData", "NotChargingBecauseOverTemperature",
       "NotChargingBecauseAccessControlWait", "ChargingBecauseForceStateOn",
       "NotChargingBecauseForceStateOff", "NotChargingBecauseScheduler",
       "NotChargingBecauseEnergyLimit", "ChargingBecauseAwattarPriceLow",
       "ChargingBecauseAutomaticStopTestLadung",
       "ChargingBecauseAutomaticStopNotEnoughTime", "ChargingBecauseAutomaticStop",
       "ChargingBecauseAutomaticStopNoClock", "ChargingBecausePvSurplus",
       "ChargingBecauseFallbackGoEDefault", "ChargingBecauseFallbackGoEScheduler",
       "ChargingBecauseFallbackDefault", "NotChargingBecauseFallbackGoEAwattar",
       "NotChargingBecauseFallbackAwattar", "NotChargingBecauseFallbackAutomaticStop",
       "ChargingBecauseCarCompatibilityKeepAlive", "ChargingBecauseChargePauseNotAllowed",
       "", "NotChargingBecauseSimulateUnplugging", "NotChargingBecausePhaseSwitch",
       "NotChargingBecauseMinPauseDuration" >>
ModelStatusOk(v) ==
    /\ v.t = "int" /\ v.n >= 0 /\ v.n < Len(ModelStatusNames)
    /\ ModelStatusNames[v.n + 1] # ""
ModelStatusOf(v) == ModelStatusNames[v.n + 1]

\* #[derive(Deserialize)] struct ChargingValues, from a JSON array: exactly
\* sixteen numbers, taken in field order
ChargingValuesOk(v) ==
    /\ v.t = "arr"
    /\ Len(v.a) = NrgLen
    /\ \A i \in 1..Len(v.a) : FloatOk(v.a[i])
ChargingValuesOf(v) ==
    [u1 |-> FloatOf(v.a[1]), u2 |-> FloatOf(v.a[2]), u3 |-> FloatOf(v.a[3]),
     un |-> FloatOf(v.a[4]), i1 |-> FloatOf(v.a[5]), i2 |-> FloatOf(v.a[6]),
     i3 |-> FloatOf(v.a[7]), p1 |-> FloatOf(v.a[8]), p2 |-> FloatOf(v.a[9]),
     p3 |-> FloatOf(v.a[10]), pn |-> FloatOf(v.a[11]), pt |-> FloatOf(v.a[12]),
     pf1 |-> FloatOf(v.a[13]), pf2 |-> FloatOf(v.a[14]), pf3 |-> FloatOf(v.a[15]),
     pfn |-> FloatOf(v.a[16])]
ChargingValuesDefault ==
    [u1 |-> 0, u2 |-> 0, u3 |-> 0, un |-> 0, i1 |-> 0, i2 |-> 0, i3 |-> 0,
     p1 |-> 0, p2 |-> 0, p3 |-> 0, pn |-> 0, pt |-> 0,
     pf1 |-> 0, pf2 |-> 0, pf3 |-> 0, pfn |-> 0]

\* serde_json::to_string of a scalar and of an array
RECURSIVE JoinScalars(_)
ScalarText(v) ==
    CASE v.t = "int" -> ToString(v.n)
      [] v.t = "float" -> ToString(v.n) \o ".5"
      [] v.t = "str" -> "\"\""
      [] v.t = "null" -> "null"
      [] OTHER -> "{}"
JoinScalars(s) ==
    IF s = <<>> THEN ""
    ELSE IF Len(s) = 1 THEN ScalarText(s[1])
    ELSE ScalarText(s[1]) \o "," \o JoinScalars(Tail(s))
TpcmOk(v) == v.t = "arr"
TpcmOf(v) == "[" \o JoinScalars(v.a) \o "]"

----------------------------------------------------------------------------
(* The charger snapshot *)

WattpilotDataDefault ==
    [last_updated |-> UNIX_EPOCH,
     charging_values |-> ChargingValuesDefault,
     car_state |-> "Unknown",
     model_status |-> "NotChargingBecauseNoChargeCtrlData",
     charged_since_connected |-> 0,
     tpcm |-> "[]",
     lps |-> 0,
     ets |-> 0]

AllowList == {"nrg", "car", "modelStatus", "wh", "tpcm", "lps", "ets"}

\* FieldOf with the last block storing into the field of the block before
FieldOf_slip(k) ==
    CASE k = "nrg" -> "charging_values"
      [] k = "car" -> "car_state"
      [] k = "modelStatus" -> "model_status"
      [] k = "wh" -> "charged_since_connected"
      [] k = "tpcm" -> "tpcm"
      [] k = "lps" -> "lps"
      [] k = "ets" -> "lps"

\* the snapshot field a status key is stored in
FieldOf(k) ==
    CASE k = "nrg" -> "charging_values"
      [] k = "car" -> "car_state"
      [] k = "modelStatus" -> "model_status"
      [] k = "wh" -> "charged_since_connected"
      [] k = "tpcm" -> "tpcm"
      [] k = "lps" -> "lps"
      [] k = "ets" -> "ets"

\* whether the value of key k decodes into the type of its field, and to what
DecodeOk(k, v) ==
    CASE k = "nrg" -> ChargingValuesOk(v)
      [] k = "car" -> CarStateOk(v)
      [] k = "modelStatus" -> ModelStatusOk(v)
      [] k = "wh" -> FloatOk(v)
      [] k = "tpcm" -> TpcmOk(v)
      [] k = "lps" -> I64Ok(v)
      [] k = "ets" -> I64Ok(v)
Decode(k, v) ==
    CASE k = "nrg" -> ChargingValuesOf(v)
      [] k = "car" -> CarStateOf(v)
      [] k = "modelStatus" -> ModelStatusOf(v)
      [] k = "wh" -> FloatOf(v)
      [] k = "tpcm" -> TpcmOf(v)
      [] k = "lps" -> I64Of(v)
      [] k = "ets" -> I64Of(v)

(* A text frame: parsed is FALSE when it is not a JSON document; status is  *)
(* "absent" (no "status" member), "other" (a member that is not an object)  *)
(* or "object", and then fields maps the keys of the object to their values *)
NoFields == [k \in {} |-> JNull]
Frame(p, s, f) == [parsed |-> p, status |-> s, fields |-> f]

\* read_message, lines 288-305: the allow-listed members of the status object
Reduced(m) ==
    IF m.parsed /\ m.status = "object"
    THEN (DOMAIN m.fields) \cap AllowList
    ELSE {}

\* MergeKey with a field that fails to decode reset to its default
MergeKey_reset(d, m, k) ==
    IF k \in Reduced(m)
    THEN [d EXCEPT ![FieldOf(k)] =
              IF DecodeOk(k, m.fields[k]) THEN Decode(k, m.fields[k])
              ELSE WattpilotDataDefault[FieldOf(k)]]
    ELSE d

\* MergeKey with the energy counter added onto the stored value
MergeKey_sum(d, m, k) ==
    IF k \in Reduced(m) /\ DecodeOk(k, m.fields[k])
    THEN [d EXCEPT ![FieldOf(k)] =
              IF k = "wh" THEN @ + Decode(k, m.fields[k]) ELSE Decode(k, m.fields[k])]
    ELSE d

\* read_message, lines 308-365: one `if let Some(data) = reduced.get(k)` block
MergeKey(d, m, k) ==
    IF k \in Reduced(m) /\ DecodeOk(k, m.fields[k])
    THEN [d EXCEPT ![FieldOf(k)] = Decode(k, m.fields[k])]
    ELSE d

\* read_message without the return on an empty filtered set
read_message_stamp(d, m, t) ==
    IF ~(m.parsed /\ m.status = "object") THEN d
    ELSE LET d0 == [d EXCEPT !.last_updated = t]
             d1 == MergeKey(d0, m, "nrg")
             d2 == MergeKey(d1, m, "car")
             d3 == MergeKey(d2, m, "modelStatus")
             d4 == MergeKey(d3, m, "wh")
             d5 == MergeKey(d4, m, "tpcm")
             d6 == MergeKey(d5, m, "lps")
         IN  MergeKey(d6, m, "ets")

\* read_message: the snapshot after merging frame m at time t
read_message(d, m, t) ==
    IF Reduced(m) = {} THEN d
    ELSE LET d0 == [d EXCEPT !.last_updated = t]
             d1 == MergeKey(d0, m, "nrg")
             d2 == MergeKey(d1, m, "car")
             d3 == MergeKey(d2, m, "modelStatus")
             d4 == MergeKey(d3, m, "wh")
             d5 == MergeKey(d4, m, "tpcm")
             d6 == MergeKey(d5, m, "lps")
         IN  MergeKey(d6, m, "ets")

----------------------------------------------------------------------------
(* Text frames the charger sends *)

Sixteen(v) == [i \in 1..NrgLen |-> v]

\* two well-formed values of each allow-listed key
Valid(k) ==
    CASE k = "nrg" -> << JArr(Sixteen(JInt(1))), JArr(Sixteen(JFloat(2))) >>
      [] k = "car" -> << JInt(2), JInt(5) >>
      [] k = "modelStatus" -> << JInt(12), JInt(24) >>
      [] k = "wh" -> << JFloat(4), JInt(7) >>
      [] k = "tpcm" -> << JArr(<< JInt(1), JInt(2) >>), JArr(<< JFloat(0) >>) >>
      [] k = "lps" -> << JInt(7), JInt(-1) >>
      [] k = "ets" -> << JInt(9), JInt(3) >>

\* two values of each allow-listed key that do not decode
Malformed(k) ==
    CASE k = "nrg" -> << JArr([i \in 1..(NrgLen - 1) |-> JInt(1)]), JStr >>
      [] k = "car" -> << JInt(6), JStr >>
      [] k = "modelStatus" -> << JInt(21), JInt(25) >>
      [] k = "wh" -> << JStr, JNull >>
      [] k = "tpcm" -> << JInt(3), JObj >>
      [] k = "lps" -> << JFloat(7), JStr >>
      [] k = "ets" -> << JNull, JFloat(1) >>

Range(s) == {s[i] : i \in DOMAIN s}

KeyOrder == << "nrg", "car", "modelStatus", "wh", "tpcm", "lps", "ets" >>
NextKey(i) == KeyOrder[(i % Len(KeyOrder)) + 1]

\* frames read_message discards
NoiseFrames ==
    { Frame(FALSE, "absent", NoFields),
      Frame(TRUE, "absent", NoFields),
      Frame(TRUE, "other", NoFields),
      Frame(TRUE, "object", NoFields),
      Frame(TRUE, "object", ("amp" :> JInt(6)) @@ ("fwv" :> JStr)) }

\* status objects with one allow-listed key
SingleFrames ==
    UNION { { Frame(TRUE, "object", k :> v) : v \in Range(Valid(k)) \cup {Malformed(k)[2]} } :
            k \in AllowList }

\* status objects with two allow-listed keys, one well-formed and the other
\* not, and with an unknown key beside a well-formed one
PairFrames ==
    { Frame(TRUE, "object", (KeyOrder[i] :> Valid(KeyOrder[i])[1])
                            @@ (NextKey(i) :> Malformed(NextKey(i))[1])) :
        i \in DOMAIN KeyOrder } \cup
    { Frame(TRUE, "object", (NextKey(i) :> Valid(NextKey(i))[2])
                            @@ (KeyOrder[i] :> Malformed(KeyOrder[i])[1])) :
        i \in DOMAIN KeyOrder } \cup
    { Frame(TRUE, "object", (k :> Valid(k)[2]) @@ ("amp" :> JInt(16))) : k \in {"car", "tpcm"} }

Frames == NoiseFrames \cup SingleFrames \cup PairFrames

----------------------------------------------------------------------------
(* The solar snapshot *)

SolarDataDefault ==
    [last_time |-> UNIX_EPOCH,
     old_inverter_power |-> 0, new_inverter_power |-> 0, both_inverter_power |-> 0,
     battery_load_percentage |-> 0, autonomy_percent |-> 0,
     self_consumption_percent |-> 0,
     drain_from_battery |-> 0, drain_from_grid |-> 0, house_consumption |-> 0]

----------------------------------------------------------------------------
(* tokio::sync::RwLock: a guard is <<task, mode>>, mode "r" or "w" *)

LockNames == {"wp", "data", "solar"}
NoGuards == [l \in LockNames |-> {}]

CanRead(l) == \A g \in locks[l] : g[2] = "r"
CanWrite(l) == locks[l] = {}
Acquire(l, task, mode) == [locks EXCEPT ![l] = @ \cup {<< task, mode >>}]
Release(lk, l, task) == [lk EXCEPT ![l] = {g \in @ : g[1] # task}]
ReleaseAll(task) == [l \in LockNames |-> {g \in locks[l] : g[1] # task}]
Holds(task) == {l \in LockNames : \E g \in locks[l] : g[1] = task}

----------------------------------------------------------------------------
(* The charger client: Wattpilot::main_handler and Wattpilot::authenticate. *)
(* cpc is the await the task is suspended at:                               *)
(*   "absent"        no client was spawned                                  *)
(*   "top"           wp.write().await at the head of the loop               *)
(*   "connect"       connect_async(..).await                                *)
(*   "hello"         authenticate: first read.next().await                  *)
(*   "auth_required" authenticate: second read.next().await                 *)
(*   "send_auth"     authenticate: self.send(..).await                      *)
(*   "auth_response" authenticate: third read.next().await                  *)
(*   "auth_failed"   wp.write().await after authenticate returned Err       *)
(*   "recv"          read.next().await of the receive loop                  *)
(*   "merge"         read_message: data.write().await                       *)
(*   "recv_err"      wp.write().await after an Err item                     *)
(*   "sleep_connect", "sleep_auth", "sleep_stream"                          *)
(*                   sleep(Duration::from_secs(3)).await at lines 253, 266  *)
(*                   and 282                                                *)

SleepPcs == {"sleep_connect", "sleep_auth", "sleep_stream"}
HandshakePcs == {"hello", "auth_required", "send_auth", "auth_response"}
StreamPcs == {"recv", "merge", "recv_err"}

Password == "pw"
Serials == {"s1", "s2"}
ResponseTypes == {"authSuccess", "authError", "other"}

\* frames the device sends while streaming
StreamFrames ==
    { Frame(FALSE, "absent", NoFields),
      Frame(TRUE, "object", "amp" :> JInt(16)),
      Frame(TRUE, "object", ("car" :> JInt(6)) @@ ("lps" :> JInt(7))) }
NoFrame == Frame(FALSE, "none", NoFields)

\* authenticate, lines 212-213: PBKDF2-HMAC-SHA512, base64, first 32 characters
HashedPwOf(password, ser) == "b64(pbkdf2(" \o password \o "," \o ser \o "))[..32]"

\* authenticate, lines 216-221: token1 and token2 of the auth-required
\* message, token3 drawn at random, and the hash sent with token3
Tokens == {"ta", "tb"}
Randoms == {"ra", "rb"}
Sha256Hex(x) == "sha256(" \o x \o ")"
AuthHash(t1, t2, t3, hpw) == Sha256Hex(t3 \o t2 \o Sha256Hex(t1 \o hpw))
NoAuth == [token1 |-> "", token2 |-> "", token3 |-> "", hash |-> ""]

Bump(n) == IF n < MaxConnectFails THEN n + 1 ELSE n

\* ClientTop without the reset of the flag
ClientTop_keep ==
    /\ cpc = "top"
    /\ CanWrite("wp")
    /\ locks' = Acquire("wp", "client", "w")
    /\ cpc' = "connect"
    /\ UNCHANGED << now, millis, authMsg, data, history, authenticated, hashed_pw,
                    wsink, serial, ended,
                    authResp, curMsg, sleepFor, connectFails, wpConfigured, no_db >>
    /\ UNCHANGED schedVars
    /\ UNCHANGED apiVars

\* lines 245-249: take the write guard wp_write, clear the flag, start to connect
ClientTop ==
    /\ cpc = "top"
    /\ CanWrite("wp")
    /\ locks' = Acquire("wp", "client", "w")
    /\ authenticated' = FALSE
    /\ cpc' = "connect"
    /\ UNCHANGED << now, millis, authMsg, data, history, hashed_pw, wsink, serial,
                    ended, authResp,
                    curMsg, sleepFor, connectFails, wpConfigured, no_db >>
    /\ UNCHANGED schedVars
    /\ UNCHANGED apiVars

\* lines 249-255: connect_async returned Err; sleep with wp_write still alive
ConnectFail ==
    /\ cpc = "connect"
    /\ cpc' = "sleep_connect"
    /\ sleepFor' = RetryDelay
    /\ connectFails' = Bump(connectFails)
    /\ UNCHANGED << now, millis, authMsg, data, history, authenticated, hashed_pw,
                    wsink, serial, ended,
                    authResp, curMsg, locks, wpConfigured, no_db >>
    /\ UNCHANGED schedVars
    /\ UNCHANGED apiVars

\* lines 249-262: connected; store the sink and call authenticate
ConnectOk ==
    /\ cpc = "connect"
    /\ wsink' = TRUE
    /\ ended' = FALSE
    /\ authResp' = "none"
    /\ serial' = ""
    /\ connectFails' = 0
    /\ cpc' = "hello"
    /\ UNCHANGED << now, millis, authMsg, data, history, authenticated, hashed_pw,
                    curMsg, sleepFor,
                    locks, wpConfigured, no_db >>
    /\ UNCHANGED schedVars
    /\ UNCHANGED apiVars

\* authenticate returns Err(..): back in main_handler at line 262
AuthenticateErr(streamErr) ==
    /\ cpc' = "auth_failed"
    /\ ended' = (ended \/ streamErr)
    /\ serial' = ""
    /\ UNCHANGED << now, millis, authMsg, data, history, authenticated, hashed_pw, wsink,
                    authResp, curMsg, sleepFor, connectFails, locks, wpConfigured, no_db >>
    /\ UNCHANGED schedVars
    /\ UNCHANGED apiVars

\* lines 202-205: the hello message
Hello ==
    /\ cpc = "hello"
    /\ \/ \E ser \in Serials :
             /\ serial' = ser
             /\ cpc' = "auth_required"
             /\ UNCHANGED << now, millis, authMsg, data, history, authenticated,
                             hashed_pw, wsink, ended,
                             authResp, curMsg, sleepFor, connectFails, locks,
                             wpConfigured, no_db >>
             /\ UNCHANGED schedVars
             /\ UNCHANGED apiVars
       \/ \E streamErr \in BOOLEAN : AuthenticateErr(streamErr)

\* lines 206-227: the auth-required message, the hashes, and the auth message
AuthRequired ==
    /\ cpc = "auth_required"
    /\ \/ /\ hashed_pw' = IF hashed_pw = "" THEN HashedPwOf(Password, serial)
                                              ELSE hashed_pw
          /\ cpc' = "send_auth"
          /\ UNCHANGED << now, millis, authMsg, data, history, authenticated, wsink,
                          serial, ended,
                          authResp, curMsg, sleepFor, connectFails, locks,
                          wpConfigured, no_db >>
          /\ UNCHANGED schedVars
          /\ UNCHANGED apiVars
       \/ \E streamErr \in BOOLEAN : AuthenticateErr(streamErr)

\* lines 223-227: Wattpilot::send returned
SendAuth ==
    /\ cpc = "send_auth"
    /\ \/ /\ wsink
          /\ cpc' = "auth_response"
          /\ UNCHANGED << now, millis, authMsg, data, history, authenticated,
                          hashed_pw, wsink, serial,
                          ended, authResp, curMsg, sleepFor, connectFails, locks,
                          wpConfigured, no_db >>
          /\ UNCHANGED schedVars
          /\ UNCHANGED apiVars
       \/ AuthenticateErr(FALSE)

\* lines 229-242 and 262-271: the response; authenticate returns Ok(()) whatever
\* its type, main_handler drops wp_write and enters the receive loop
AuthResponse ==
    /\ cpc = "auth_response"
    /\ \/ \E ty \in ResponseTypes :
             /\ authResp' = ty
             /\ authenticated' = CASE ty = "authError" -> FALSE
                                    [] ty = "authSuccess" -> TRUE
                                    [] OTHER -> authenticated
             /\ locks' = Release(locks, "wp", "client")
             /\ cpc' = "recv"
             /\ serial' = ""
             /\ UNCHANGED << now, millis, authMsg, data, history, hashed_pw, wsink, ended,
                             curMsg, sleepFor, connectFails, wpConfigured, no_db >>
             /\ UNCHANGED schedVars
             /\ UNCHANGED apiVars
       \/ \E streamErr \in BOOLEAN : AuthenticateErr(streamErr)

\* ResetAuthenticated with the flag left as it is
ResetAuthenticated_noop ==
    /\ cpc \in {"auth_failed", "recv_err"}
    /\ CanWrite("wp")
    /\ cpc' = IF cpc = "auth_failed" THEN "sleep_auth" ELSE "recv"
    /\ sleepFor' = IF cpc = "auth_failed" THEN RetryDelay ELSE sleepFor
    /\ UNCHANGED << now, millis, authMsg, data, history, authenticated, hashed_pw,
                    wsink, serial, ended,
                    authResp, curMsg, connectFails, locks, wpConfigured, no_db >>
    /\ UNCHANGED schedVars
    /\ UNCHANGED apiVars

\* lines 265 and 279: wp.write().await.authenticated = false
ResetAuthenticated ==
    /\ cpc \in {"auth_failed", "recv_err"}
    /\ CanWrite("wp")
    /\ authenticated' = FALSE
    /\ cpc' = IF cpc = "auth_failed" THEN "sleep_auth" ELSE "recv"
    /\ sleepFor' = IF cpc = "auth_failed" THEN RetryDelay ELSE sleepFor
    /\ UNCHANGED << now, millis, authMsg, data, history, hashed_pw, wsink, serial,
                    ended, authResp,
                    curMsg, connectFails, locks, wpConfigured, no_db >>
    /\ UNCHANGED schedVars
    /\ UNCHANGED apiVars

\* lines 272-275 and 288-305: an Ok text frame; read_message returns at once
\* when nothing of the frame is allow-listed, else waits for the data lock
\* (a frame that is not text has the effect of one that does not parse)
RecvFrame ==
    /\ cpc = "recv"
    /\ ~ended
    /\ \E m \in StreamFrames :
          IF Reduced(m) = {}
          THEN UNCHANGED << cpc, curMsg >>
          ELSE cpc' = "merge" /\ curMsg' = m
    /\ UNCHANGED << now, millis, authMsg, data, history, authenticated, hashed_pw,
                    wsink, serial, ended,
                    authResp, sleepFor, connectFails, locks, wpConfigured, no_db >>
    /\ UNCHANGED schedVars
    /\ UNCHANGED apiVars

\* lines 306-366: read_message under the write guard of the snapshot
Merge ==
    /\ cpc = "merge"
    /\ CanWrite("data")
    /\ data' = read_message(data, curMsg, now)
    /\ curMsg' = NoFrame
    /\ cpc' = "recv"
    /\ UNCHANGED << now, millis, authMsg, history, authenticated, hashed_pw, wsink,
                    serial, ended,
                    authResp, sleepFor, connectFails, locks, wpConfigured, no_db >>
    /\ UNCHANGED schedVars
    /\ UNCHANGED apiVars

\* lines 277-279: an Err item; the stream yields nothing but None after it
RecvErr ==
    /\ cpc = "recv"
    /\ ~ended
    /\ ended' = TRUE
    /\ cpc' = "recv_err"
    /\ UNCHANGED << now, millis, authMsg, data, history, authenticated, hashed_pw,
                    wsink, serial,
                    authResp, curMsg, sleepFor, connectFails, locks, wpConfigured, no_db >>
    /\ UNCHANGED schedVars
    /\ UNCHANGED apiVars

\* lines 272 and 282: the stream ended; leave the loop and sleep
RecvNone ==
    /\ cpc = "recv"
    /\ cpc' = "sleep_stream"
    /\ sleepFor' = RetryDelay
    /\ UNCHANGED << now, millis, authMsg, data, history, authenticated, hashed_pw,
                    wsink, serial, ended,
                    authResp, curMsg, connectFails, locks, wpConfigured, no_db >>
    /\ UNCHANGED schedVars
    /\ UNCHANGED apiVars

\* SleepDone with wp_write outliving the iteration
SleepDone_hold ==
    /\ cpc \in SleepPcs
    /\ sleepFor' = 0
    /\ cpc' = "top"
    /\ UNCHANGED << now, millis, authMsg, data, history, authenticated, hashed_pw,
                    wsink, serial, ended,
                    authResp, curMsg, connectFails, locks, wpConfigured, no_db >>
    /\ UNCHANGED schedVars
    /\ UNCHANGED apiVars

\* lines 253-254, 266-268, 282: the sleep is over; the iteration ends, which
\* drops wp_write if it is still alive
SleepDone ==
    /\ cpc \in SleepPcs
    /\ locks' = Release(locks, "wp", "client")
    /\ sleepFor' = 0
    /\ cpc' = "top"
    /\ UNCHANGED << now, millis, authMsg, data, history, authenticated, hashed_pw,
                    wsink, serial, ended,
                    authResp, curMsg, connectFails, wpConfigured, no_db >>
    /\ UNCHANGED schedVars
    /\ UNCHANGED apiVars

ClientNext ==
    \/ ClientTop \/ ConnectFail \/ ConnectOk \/ Hello \/ AuthRequired \/ SendAuth
    \/ AuthResponse \/ ResetAuthenticated \/ RecvFrame \/ Merge \/ RecvErr
    \/ RecvNone \/ SleepDone

----------------------------------------------------------------------------
(* SolarFetcher: get_data, lines 143-160.  A parsed document (SolarJson)    *)
(* holds its numbers as floats in halves.                                   *)

\* `as` casts of a float: truncation toward zero, saturating at the bounds
\* of the target type (the upper bounds of u32, i64 and u64 lie beyond the
\* numbers of this model)
Trunc(h) == IF h >= 0 THEN h \div 2 ELSE -((-h) \div 2)
AsU8(h) == IF Trunc(h) < 0 THEN 0 ELSE IF Trunc(h) > 255 THEN 255 ELSE Trunc(h)
AsU32(h) == IF Trunc(h) < 0 THEN 0 ELSE Trunc(h)
AsU64(h) == IF Trunc(h) < 0 THEN 0 ELSE Trunc(h)
AsI64(h) == Trunc(h)

Site(akku, grid, load, pv, autonomy, selfc) ==
    [power_battery |-> akku, power_grid |-> grid, house_consumption |-> load,
     power_pv |-> pv, autonomy |-> autonomy, self_consumption |-> selfc]

\* documents the inverter answers with: secondary_meters is the set of the
\* meters' power values, inverters the sequence of battery percentages
SolarDocs ==
    { [secondary_meters |-> {200}, inverters |-> << 110 >>,
       site |-> Site(-400, 100, -6000, 5000, 160, 180)],
      [secondary_meters |-> {}, inverters |-> << >>,
       site |-> Site(0, -3, 0, -7, 0, 0)] }

\* the document the inverter of this model answers with
InverterDocs ==
    { [secondary_meters |-> {200}, inverters |-> << 110 >>,
       site |-> Site(-400, 100, -6000, 5000, 160, 180)] }

\* json.secondary_meters.values().last(): some entry of the map, in the
\* map's iteration order, or the zero meter
LastMeters(json) == IF json.secondary_meters = {} THEN {0} ELSE json.secondary_meters
LastInverter(json) ==
    IF json.inverters = << >> THEN 0 ELSE json.inverters[Len(json.inverters)]

\* lines 149-160
SolarDataOf(json, power, t) ==
    [last_time |-> t,
     old_inverter_power |-> AsU32(power),
     new_inverter_power |-> AsU32(json.site.power_pv),
     both_inverter_power |-> AsU32(power + json.site.power_pv),
     battery_load_percentage |-> AsU8(LastInverter(json)),
     autonomy_percent |-> AsU8(json.site.autonomy),
     self_consumption_percent |-> AsU8(json.site.self_consumption),
     drain_from_battery |-> AsI64(json.site.power_battery),
     drain_from_grid |-> AsI64(json.site.power_grid),
     house_consumption |-> AsU64(-json.site.house_consumption)]

----------------------------------------------------------------------------
(* The inverter document as it comes over the wire.  An object is a         *)
(* function from its member names to their values; the members of the       *)
(* top-level object are the map of the meters (meter name -> object), the   *)
(* sequence of the inverters and the site object.                           *)

\* the member names serde accepts for each field: the field's name and its
\* alias.  The alias of `site` is "inverters" (line 100), a name the field
\* declared before it takes, so that only "site" selects the field.
FieldNames(f) ==
    CASE f = "power" -> {"power", "P"}
      [] f = "battery_percent" -> {"battery_percent", "SOC"}
      [] f = "power_battery" -> {"power_battery", "P_Akku"}
      [] f = "power_grid" -> {"power_grid", "P_Grid"}
      [] f = "house_consumption" -> {"house_consumption", "P_Load"}
      [] f = "power_pv" -> {"power_pv", "P_PV"}
      [] f = "autonomy" -> {"autonomy", "rel_Autonomy"}
      [] f = "self_consumption" -> {"self_consumption", "rel_SelfConsumption"}
      [] f = "secondary_meters" -> {"secondary_meters", "SecondaryMeters"}
      [] f = "inverters" -> {"inverters"}
      [] f = "site" -> {"site"}

\* the member of obj that selects field f
Member(obj, f) == obj[CHOOSE k \in FieldNames(f) \cap DOMAIN obj : TRUE]

\* a float field read with deserialize_null_default (utils.rs lines 13-20):
\* null gives 0.0; an absent member gives 0.0 only with #[serde(default)],
\* and is a missing field otherwise; two members of one field are a duplicate
NumberOk_lenient(obj, f, hasDefault) ==
    LET ks == FieldNames(f) \cap DOMAIN obj
    IN  IF ks = {} THEN TRUE
        ELSE Cardinality(ks) = 1 /\ Member(obj, f).t \in {"null", "int", "float"}

NumberOk(obj, f, hasDefault) ==
    LET ks == FieldNames(f) \cap DOMAIN obj
    IN  IF ks = {} THEN hasDefault
        ELSE Cardinality(ks) = 1 /\ Member(obj, f).t \in {"null", "int", "float"}
NumberOf(obj, f) ==
    IF FieldNames(f) \cap DOMAIN obj = {} \/ Member(obj, f).t = "null" THEN 0
    ELSE FloatOf(Member(obj, f))

\* lines 72-92
SiteOk(obj) ==
    \A f \in {"power_battery", "power_grid", "house_consumption", "power_pv",
              "autonomy", "self_consumption"} : NumberOk(obj, f, FALSE)
SiteOf(obj) ==
    Site(NumberOf(obj, "power_battery"), NumberOf(obj, "power_grid"),
         NumberOf(obj, "house_consumption"), NumberOf(obj, "power_pv"),
         NumberOf(obj, "autonomy"), NumberOf(obj, "self_consumption"))

\* serde_json::from_str::<SolarJson>, line 121: every field of SolarJson is
\* required, members with other names are ignored
SolarJsonOk(doc) ==
    /\ \A f \in {"secondary_meters", "inverters", "site"} :
          Cardinality(FieldNames(f) \cap DOMAIN doc) = 1
    /\ \A n \in DOMAIN Member(doc, "secondary_meters") :
          NumberOk(Member(doc, "secondary_meters")[n], "power", FALSE)
    /\ \A i \in DOMAIN Member(doc, "inverters") :
          NumberOk(Member(doc, "inverters")[i], "battery_percent", TRUE)
    /\ SiteOk(Member(doc, "site"))
SolarJsonOf(doc) ==
    [secondary_meters |->
         {NumberOf(Member(doc, "secondary_meters")[n], "power") :
              n \in DOMAIN Member(doc, "secondary_meters")},
     inverters |->
         [i \in DOMAIN Member(doc, "inverters") |->
              NumberOf(Member(doc, "inverters")[i], "battery_percent")],
     site |-> SiteOf(Member(doc, "site"))]

\* the powerflow document of the specification's scenario, with the site
\* object under the given member name
MeterObject == ("P" :> JInt(100))
InverterObject == ("SOC" :> JInt(55))
SiteObject ==
    ("P_Akku" :> JInt(-200)) @@ ("P_Grid" :> JInt(50)) @@ ("P_Load" :> JInt(-3000))
    @@ ("P_PV" :> JInt(2500)) @@ ("rel_Autonomy" :> JInt(80))
    @@ ("rel_SelfConsumption" :> JInt(90))
Document(siteKey, meter, inverter, site) ==
    ("SecondaryMeters" :> ("m1" :> meter))
    @@ ("inverters" :> << inverter >>)
    @@ (siteKey :> site)
Powerflow(siteKey) == Document(siteKey, MeterObject, InverterObject, SiteObject)

\* an object without its member k, and with its member k set to v
Without(obj, k) == [n \in DOMAIN obj \ {k} |-> obj[n]]
With(obj, k, v) == [n \in DOMAIN obj \cup {k} |-> IF n = k THEN v ELSE obj[n]]

\* the scenario's document with one numeric member left out or null
OneOff(obj) ==
    {Without(obj, k) : k \in DOMAIN obj} \cup {With(obj, k, JNull) : k \in DOMAIN obj}
OneOffDocs ==
    {Document("site", m, InverterObject, SiteObject) : m \in OneOff(MeterObject)}
    \cup {Document("site", MeterObject, i, SiteObject) : i \in OneOff(InverterObject)}
    \cup {Document("site", MeterObject, InverterObject, s) : s \in OneOff(SiteObject)}

\* the scenario's document with other powers of the meter and of the site:
\* negative, fractional (0.5) and positive
Powers == {JInt(-100), JFloat(0), JInt(100)}
PowerDocs ==
    {Document("site", With(MeterObject, "P", p), InverterObject,
              With(SiteObject, "P_PV", q)) : p, q \in Powers}

Documents == {Powerflow("Site"), Powerflow("site")} \cup OneOffDocs \cup PowerDocs

\* how a request of get_data can end: the request is not sent or gets no
\* response ("send_err"); a response with a non-success status whose body
\* is read ("status") or not ("status_body_err"); a success status whose
\* body is not read ("body_err"), is not JSON ("not_json") or is a document
TransportErrs == {"send_err", "status_body_err", "body_err"}
Responses ==
    {[end |-> e, body |-> << >>] : e \in TransportErrs \cup {"status", "not_json"}}
    \cup {[end |-> "document", body |-> d] : d \in Documents}
BodyOf(r) == r.body

\* the response r makes the loop of get_data sleep and go on
Retried(r) ==
    \/ r.end \in {"status", "not_json"}
    \/ r.end = "document" /\ ~SolarJsonOk(BodyOf(r))

----------------------------------------------------------------------------
(* The scheduler: the loop of start (src/src/main.rs) around add_point      *)
(* (src/src/utils.rs), with fetch_solar_values and get_data                 *)
(* (src/src/inverter.rs).  spc is the await the task is suspended at:       *)
(*   "wait"        sleep(Duration::from_millis(wait)).await                 *)
(*   "get"         get_data: the GET request and the read of its body       *)
(*   "get_sleep"   get_data: sleep(sleep_time).await                        *)
(*   "store"       fetch_solar_values: solar_data.write().await             *)
(*   "solar_read"  add_point: solar_data.read().await                       *)
(*   "wp_read"     add_point: some.read().await                             *)
(*   "wp_age"      add_point: read.data.read().await, line 75               *)
(*   "wp_clone"    add_point: read.data.read().await, line 81               *)
(*   "post"        add_point: the POST to the time-series sink              *)
(*   "n_fetch", "n_nodb", "n_solar", "n_wp", "n_ok", "n_influx"             *)
(*                 contact_monitoring(..).await at lines 57, 61, 69, 78,    *)
(*                 125 and 131/136                                          *)

NotifyPcs == {"n_fetch", "n_nodb", "n_solar", "n_wp", "n_ok", "n_influx"}
IoPcs == {"get", "post"} \cup NotifyPcs
SchedSleepPcs == {"wait", "get_sleep"}

\* CodeOf with the fetch failure reported as degraded
CodeOf_degraded(pc) ==
    CASE pc = "n_fetch" -> 2
      [] pc = "n_nodb" -> 0
      [] pc = "n_solar" -> 2
      [] pc = "n_wp" -> 2
      [] pc = "n_ok" -> 0
      [] pc = "n_influx" -> 2

\* the code contact_monitoring is called with at each call site
CodeOf(pc) ==
    CASE pc = "n_fetch" -> 1
      [] pc = "n_nodb" -> 0
      [] pc = "n_solar" -> 2
      [] pc = "n_wp" -> 2
      [] pc = "n_ok" -> 0
      [] pc = "n_influx" -> 2

NoRecord == [last_updated |-> -1]

\* how the POST of lines 117-122 can end
PostOutcomes == {"success", "status", "transport"}

\* main.rs lines 134-139 and utils.rs lines 55-56: the sleep is over, add_point
\* starts and get_data sends its first request
Wake ==
    /\ spc = "wait"
    /\ spc' = "get"
    /\ attempt' = 1
    /\ notes' = << >>
    /\ wpOut' = NoRecord
    /\ reqs' = << >>
    /\ UNCHANGED << now, millis, authMsg, data, history, locks, wpConfigured, no_db,
                    fetched, solar,
                    nap, postResp >>
    /\ UNCHANGED clientVars
    /\ UNCHANGED apiVars

\* inverter.rs lines 111-114, 116, 120: the request or the read of the body
\* failed; `?` returns the error from get_data and fetch_solar_values is false
GetTransportErr ==
    /\ spc = "get"
    /\ spc' = "n_fetch"
    /\ UNCHANGED << now, millis, authMsg, data, history, locks, wpConfigured, no_db,
                    attempt, fetched,
                    solar, notes, wpOut, reqs, nap, postResp >>
    /\ UNCHANGED clientVars
    /\ UNCHANGED apiVars

\* lines 115-118 and 127-130: a non-success status or a body that does not
\* parse; sleep before the next iteration
GetRetry ==
    /\ spc = "get"
    /\ spc' = "get_sleep"
    /\ nap' = sleep_time
    /\ UNCHANGED << now, millis, authMsg, data, history, locks, wpConfigured, no_db,
                    attempt, fetched,
                    solar, notes, wpOut, reqs, postResp >>
    /\ UNCHANGED clientVars
    /\ UNCHANGED apiVars

\* GetSleepDone with a loop of one iteration more
GetSleepDone_more ==
    /\ spc = "get_sleep"
    /\ IF attempt <= MaxAttempts
       THEN attempt' = attempt + 1 /\ spc' = "get"
       ELSE attempt' = attempt /\ spc' = "n_fetch"
    /\ nap' = 0
    /\ UNCHANGED << now, millis, authMsg, data, history, locks, wpConfigured, no_db,
                    fetched, solar,
                    notes, wpOut, reqs, postResp >>
    /\ UNCHANGED clientVars
    /\ UNCHANGED apiVars

\* lines 109 and 134-137: next iteration, or the loop is over without success
GetSleepDone ==
    /\ spc = "get_sleep"
    /\ IF attempt < MaxAttempts
       THEN attempt' = attempt + 1 /\ spc' = "get"
       ELSE attempt' = attempt /\ spc' = "n_fetch"
    /\ nap' = 0
    /\ UNCHANGED << now, millis, authMsg, data, history, locks, wpConfigured, no_db,
                    fetched, solar,
                    notes, wpOut, reqs, postResp >>
    /\ UNCHANGED clientVars
    /\ UNCHANGED apiVars

\* lines 120-126 and 139-160: the body parsed; get_data returns the snapshot
GetOk ==
    /\ spc = "get"
    /\ \E json \in InverterDocs : \E power \in LastMeters(json) :
          fetched' = SolarDataOf(json, power, now)
    /\ spc' = "store"
    /\ UNCHANGED << now, millis, authMsg, data, history, locks, wpConfigured, no_db,
                    attempt, solar,
                    notes, wpOut, reqs, nap, postResp >>
    /\ UNCHANGED clientVars
    /\ UNCHANGED apiVars

\* add_point line 71: the charger record when there is no client, else the
\* wait for the client's lock
AfterSolar(lk) ==
    IF wpConfigured
    THEN spc' = "wp_read" /\ wpOut' = wpOut /\ locks' = lk
    ELSE spc' = "post" /\ wpOut' = WattpilotDataDefault /\ locks' = lk

\* Store writing the values into the snapshot and leaving its time
Store_partial ==
    /\ spc = "store"
    /\ CanWrite("solar")
    /\ solar' = [fetched EXCEPT !.last_time = solar.last_time]
    /\ fetched' = SolarDataDefault
    /\ spc' = IF no_db THEN "n_nodb" ELSE "solar_read"
    /\ UNCHANGED << now, millis, authMsg, data, history, locks, wpConfigured, no_db,
                    attempt, notes, wpOut, reqs, nap, postResp >>
    /\ UNCHANGED clientVars
    /\ UNCHANGED apiVars

\* Store with the dry-run flag ignored
Store_write ==
    /\ spc = "store"
    /\ CanWrite("solar")
    /\ solar' = fetched
    /\ fetched' = SolarDataDefault
    /\ spc' = "solar_read"
    /\ UNCHANGED << now, millis, authMsg, data, history, locks, wpConfigured, no_db,
                    attempt, notes,
                    wpOut, reqs, nap, postResp >>
    /\ UNCHANGED clientVars
    /\ UNCHANGED apiVars

\* inverter.rs line 168 and utils.rs lines 60-65: replace the snapshot, then
\* either the dry run's notification or the wait for the read guard
Store ==
    /\ spc = "store"
    /\ CanWrite("solar")
    /\ solar' = fetched
    /\ fetched' = SolarDataDefault
    /\ spc' = IF no_db THEN "n_nodb" ELSE "solar_read"
    /\ UNCHANGED << now, millis, authMsg, data, history, locks, wpConfigured, no_db,
                    attempt, notes,
                    wpOut, reqs, nap, postResp >>
    /\ UNCHANGED clientVars
    /\ UNCHANGED apiVars

\* SolarRead with the snapshot stale from 30 seconds on
SolarRead_from30 ==
    /\ spc = "solar_read"
    /\ CanRead("solar")
    /\ IF now - solar.last_time >= StaleAfter
       THEN spc' = "n_solar" /\ wpOut' = wpOut
            /\ locks' = Acquire("solar", "sched", "r")
       ELSE AfterSolar(Acquire("solar", "sched", "r"))
    /\ UNCHANGED << now, millis, authMsg, data, history, wpConfigured, no_db, attempt,
                    fetched, solar,
                    notes, reqs, nap, postResp >>
    /\ UNCHANGED clientVars
    /\ UNCHANGED apiVars

\* lines 65-71: the read guard `solar` (alive to the end of add_point) and
\* the age of the snapshot
SolarRead ==
    /\ spc = "solar_read"
    /\ CanRead("solar")
    /\ IF now - solar.last_time > StaleAfter
       THEN spc' = "n_solar" /\ wpOut' = wpOut
            /\ locks' = Acquire("solar", "sched", "r")
       ELSE AfterSolar(Acquire("solar", "sched", "r"))
    /\ UNCHANGED << now, millis, authMsg, data, history, wpConfigured, no_db, attempt,
                    fetched, solar,
                    notes, reqs, nap, postResp >>
    /\ UNCHANGED clientVars
    /\ UNCHANGED apiVars

\* line 74: the read guard `read` of the client
WpRead ==
    /\ spc = "wp_read"
    /\ CanRead("wp")
    /\ locks' = Acquire("wp", "sched", "r")
    /\ spc' = "wp_age"
    /\ UNCHANGED << now, millis, authMsg, data, history, wpConfigured, no_db, attempt,
                    fetched, solar,
                    notes, wpOut, reqs, nap, postResp >>
    /\ UNCHANGED clientVars
    /\ UNCHANGED apiVars

\* WpAge with the age of the snapshot left out of the test
WpAge_noage ==
    /\ spc = "wp_age"
    /\ CanRead("data")
    /\ spc' = IF ~authenticated THEN "n_wp" ELSE "wp_clone"
    /\ UNCHANGED << now, millis, authMsg, data, history, locks, wpConfigured, no_db,
                    attempt, fetched, solar, notes, wpOut, reqs, nap, postResp >>
    /\ UNCHANGED clientVars
    /\ UNCHANGED apiVars

\* WpAge with the authenticated flag left out of the test
WpAge_noflag ==
    /\ spc = "wp_age"
    /\ CanRead("data")
    /\ spc' = IF now - data.last_updated > StaleAfter THEN "n_wp" ELSE "wp_clone"
    /\ UNCHANGED << now, millis, authMsg, data, history, locks, wpConfigured, no_db,
                    attempt, fetched,
                    solar, notes, wpOut, reqs, nap, postResp >>
    /\ UNCHANGED clientVars
    /\ UNCHANGED apiVars

\* lines 75-76: the age of the charger snapshot and the choice of the record
WpAge ==
    /\ spc = "wp_age"
    /\ CanRead("data")
    /\ spc' = IF ~authenticated \/ now - data.last_updated > StaleAfter
              THEN "n_wp" ELSE "wp_clone"
    /\ UNCHANGED << now, millis, authMsg, data, history, locks, wpConfigured, no_db,
                    attempt, fetched,
                    solar, notes, wpOut, reqs, nap, postResp >>
    /\ UNCHANGED clientVars
    /\ UNCHANGED apiVars

\* lines 81-84 and 114-122: the live record; `read` is dropped, the POST is sent
WpClone ==
    /\ spc = "wp_clone"
    /\ CanRead("data")
    /\ wpOut' = data
    /\ locks' = Release(locks, "wp", "sched")
    /\ spc' = "post"
    /\ UNCHANGED << now, millis, authMsg, data, history, wpConfigured, no_db, attempt,
                    fetched, solar,
                    notes, reqs, nap, postResp >>
    /\ UNCHANGED clientVars
    /\ UNCHANGED apiVars

\* contact_monitoring returned (lines 22-47), at whichever call it was made
ContactMonitoring ==
    /\ spc \in NotifyPcs
    /\ notes' = Append(notes, CodeOf(spc))
    /\ CASE spc = "n_solar" -> AfterSolar(locks) /\ postResp' = postResp
         [] spc = "n_wp" -> /\ wpOut' = WattpilotDataDefault
                            /\ locks' = Release(locks, "wp", "sched")
                            /\ spc' = "post"
                            /\ postResp' = postResp
         [] OTHER -> /\ spc' = "wait"
                     /\ locks' = ReleaseAll("sched")
                     /\ wpOut' = wpOut
                     /\ postResp' = "none"
    /\ UNCHANGED << now, millis, authMsg, data, history, wpConfigured, no_db, attempt,
                    fetched, solar,
                    reqs, nap >>
    /\ UNCHANGED clientVars
    /\ UNCHANGED apiVars

\* Post reporting a cycle that was degraded before as degraded at its end
Post_sticky ==
    /\ spc = "post"
    /\ \E r \in PostOutcomes :
          /\ postResp' = r
          /\ spc' = IF r = "success" /\ notes = << >> THEN "n_ok" ELSE "n_influx"
    /\ UNCHANGED << now, millis, authMsg, data, history, locks, wpConfigured, no_db,
                    attempt, fetched, solar, notes, wpOut, reqs, nap >>
    /\ UNCHANGED clientVars
    /\ UNCHANGED apiVars

\* Post without the test of the response's status
Post_anystatus ==
    /\ spc = "post"
    /\ \E r \in PostOutcomes :
          /\ postResp' = r
          /\ spc' = IF r \in {"success", "status"} THEN "n_ok" ELSE "n_influx"
    /\ UNCHANGED << now, millis, authMsg, data, history, locks, wpConfigured, no_db,
                    attempt, fetched,
                    solar, notes, wpOut, reqs, nap >>
    /\ UNCHANGED clientVars
    /\ UNCHANGED apiVars

\* lines 117-138: the outcome of the POST: a success response, a response
\* with another status, or no response
Post ==
    /\ spc = "post"
    /\ \E r \in PostOutcomes :
          /\ postResp' = r
          /\ spc' = IF r = "success" THEN "n_ok" ELSE "n_influx"
    /\ UNCHANGED << now, millis, authMsg, data, history, locks, wpConfigured, no_db,
                    attempt, fetched,
                    solar, notes, wpOut, reqs, nap >>
    /\ UNCHANGED clientVars
    /\ UNCHANGED apiVars

SchedNext ==
    \/ Wake \/ GetTransportErr \/ GetRetry \/ GetSleepDone \/ GetOk \/ Store
    \/ SolarRead \/ WpRead \/ WpAge \/ WpClone \/ ContactMonitoring \/ Post

----------------------------------------------------------------------------
(* Time *)

Elapse ==
    /\ \E d \in TimeSteps :
          /\ now + d <= StartTime + MaxElapsed
          /\ now' = now + d
    /\ UNCHANGED << millis, authMsg, data, history, locks, wpConfigured, no_db >>
    /\ UNCHANGED clientVars
    /\ UNCHANGED schedVars
    /\ UNCHANGED apiVars

----------------------------------------------------------------------------
(* The program: both tasks, from the state after Wattpilot::new *)

Init ==
    /\ now = StartTime
    /\ millis = 0
    /\ authMsg = NoAuth
    /\ data = WattpilotDataDefault
    /\ history = << >>
    /\ authenticated = FALSE
    /\ hashed_pw = ""
    /\ wsink = FALSE
    /\ wpConfigured \in BOOLEAN
    /\ cpc = IF wpConfigured THEN "top" ELSE "absent"
    /\ serial = ""
    /\ ended = FALSE
    /\ authResp = "none"
    /\ curMsg = NoFrame
    /\ sleepFor = 0
    /\ connectFails = 0
    /\ locks = NoGuards
    /\ no_db \in BOOLEAN
    /\ spc = "wait"
    /\ attempt = 0
    /\ fetched = SolarDataDefault
    /\ solar = SolarDataDefault
    /\ notes = << >>
    /\ wpOut = NoRecord
    /\ reqs = << >>
    /\ nap = 0
    /\ postResp = "none"
    /\ apc = "idle"
    /\ apiOut = NoRecord

Next == ClientNext \/ SchedNext \/ Elapse

Spec == Init /\ [][Next]_vars

\* The tokio runtime polls every task that can run, sleeps and requests end,
\* and the RwLock serves its waiters in the order of their requests, so a
\* task that waits for a lock gets it once it is free often enough.
FairSpec ==
    /\ Spec
    /\ WF_vars(ClientNext)
    /\ WF_vars(SchedNext)
    /\ SF_vars(ClientTop)
    /\ SF_vars(ResetAuthenticated)
    /\ SF_vars(WpRead)

----------------------------------------------------------------------------
(* The receive loop on its own: the frames of one connection, merged one    *)
(* after the other (main_handler lines 272-276, read_message), with nobody  *)
(* else at the locks.  history records the frames in arrival order.         *)

\* lines 272-276 with read_message: one Ok text frame, merged before the next
\* read.next()
ReadFrame ==
    /\ cpc = "recv"
    /\ Len(history) < MaxMsgs
    /\ CanWrite("data")
    /\ \E m \in Frames :
          /\ data' = read_message(data, m, now)
          /\ history' = Append(history, m)
    /\ UNCHANGED << now, millis, authMsg, locks, wpConfigured, no_db >>
    /\ UNCHANGED clientVars
    /\ UNCHANGED schedVars
    /\ UNCHANGED apiVars

MsgInit ==
    /\ now = StartTime
    /\ millis = 0
    /\ authMsg = NoAuth
    /\ data = WattpilotDataDefault
    /\ history = << >>
    /\ authenticated = TRUE
    /\ hashed_pw = HashedPwOf(Password, "s1")
    /\ wsink = TRUE
    /\ wpConfigured = TRUE
    /\ cpc = "recv"
    /\ serial = ""
    /\ ended = FALSE
    /\ authResp = "authSuccess"
    /\ curMsg = NoFrame
    /\ sleepFor = 0
    /\ connectFails = 0
    /\ locks = NoGuards
    /\ no_db = FALSE
    /\ spc = "wait"
    /\ attempt = 0
    /\ fetched = SolarDataDefault
    /\ solar = SolarDataDefault
    /\ notes = << >>
    /\ wpOut = NoRecord
    /\ reqs = << >>
    /\ nap = 0
    /\ postResp = "none"
    /\ apc = "idle"
    /\ apiOut = NoRecord

MsgNext == ReadFrame \/ Elapse

MsgSpec == MsgInit /\ [][MsgNext]_vars

----------------------------------------------------------------------------
(* The readers of the charger snapshot beside the receive loop, with        *)
(* read_message at the granularity of its statements: the tasks run on the  *)
(* threads of the runtime, so a reader can run between any two assignments  *)
(* of the merge.  apc is the await get_values (src/src/api.rs) is at:       *)
(*   "idle"       no request is being served                                *)
(*   "api_wp"     state.wattpilot_data.read().await, line 67                *)
(*   "api_solar"  state.solar_data.read().await, line 68                    *)

\* read_message, lines 308-365: the seven blocks, in the order of the code
StoreFields(d, m) ==
    LET d1 == MergeKey(d, m, "nrg")
        d2 == MergeKey(d1, m, "car")
        d3 == MergeKey(d2, m, "modelStatus")
        d4 == MergeKey(d3, m, "wh")
        d5 == MergeKey(d4, m, "tpcm")
        d6 == MergeKey(d5, m, "lps")
    IN  MergeKey(d6, m, "ets")

\* MergeStamp writing through the snapshot without its write guard
MergeStamp_unlocked ==
    /\ cpc = "merge"
    /\ data' = [data EXCEPT !.last_updated = now]
    /\ cpc' = "merging"
    /\ UNCHANGED << now, millis, authMsg, history, authenticated, hashed_pw, wsink,
                    serial, ended,
                    authResp, curMsg, sleepFor, connectFails, locks, wpConfigured, no_db >>
    /\ UNCHANGED schedVars
    /\ UNCHANGED apiVars

\* read_message, lines 306-307: the write guard of the snapshot and the timestamp
MergeStamp ==
    /\ cpc = "merge"
    /\ CanWrite("data")
    /\ locks' = Acquire("data", "client", "w")
    /\ data' = [data EXCEPT !.last_updated = now]
    /\ cpc' = "merging"
    /\ UNCHANGED << now, millis, authMsg, history, authenticated, hashed_pw, wsink,
                    serial, ended,
                    authResp, curMsg, sleepFor, connectFails, wpConfigured, no_db >>
    /\ UNCHANGED schedVars
    /\ UNCHANGED apiVars

\* read_message, lines 308-366: the fields, then the guard is dropped
MergeFields ==
    /\ cpc = "merging"
    /\ data' = StoreFields(data, curMsg)
    /\ locks' = Release(locks, "data", "client")
    /\ curMsg' = NoFrame
    /\ cpc' = "recv"
    /\ UNCHANGED << now, millis, authMsg, history, authenticated, hashed_pw, wsink,
                    serial, ended,
                    authResp, sleepFor, connectFails, wpConfigured, no_db >>
    /\ UNCHANGED schedVars
    /\ UNCHANGED apiVars

\* api.rs lines 59-62: a GET /api/solar/ arrives
ApiRequest ==
    /\ apc = "idle"
    /\ apc' = "api_wp"
    /\ UNCHANGED << now, millis, authMsg, data, history, locks, wpConfigured, no_db,
                    apiOut >>
    /\ UNCHANGED clientVars
    /\ UNCHANGED schedVars

\* ApiWpRead taking the snapshot out of the lock instead of cloning it
ApiWpRead_take ==
    /\ apc = "api_wp"
    /\ CanRead("data")
    /\ apiOut' = data
    /\ data' = WattpilotDataDefault
    /\ locks' = Acquire("data", "api", "r")
    /\ apc' = "api_solar"
    /\ UNCHANGED << now, millis, authMsg, history, wpConfigured, no_db >>
    /\ UNCHANGED clientVars
    /\ UNCHANGED schedVars

\* api.rs line 67: the charger snapshot is cloned under a read guard; the
\* guard is a temporary of the function's tail expression
ApiWpRead ==
    /\ apc = "api_wp"
    /\ CanRead("data")
    /\ apiOut' = data
    /\ locks' = Acquire("data", "api", "r")
    /\ apc' = "api_solar"
    /\ UNCHANGED << now, millis, authMsg, data, history, wpConfigured, no_db >>
    /\ UNCHANGED clientVars
    /\ UNCHANGED schedVars

\* api.rs lines 68-73: the solar snapshot is cloned, the response returned
\* and both guards dropped
ApiSolarRead ==
    /\ apc = "api_solar"
    /\ CanRead("solar")
    /\ locks' = ReleaseAll("api")
    /\ apiOut' = NoRecord
    /\ apc' = "idle"
    /\ UNCHANGED << now, millis, authMsg, data, history, wpConfigured, no_db >>
    /\ UNCHANGED clientVars
    /\ UNCHANGED schedVars

ApiNext == ApiRequest \/ ApiWpRead \/ ApiSolarRead

\* the client is in the receive loop of an authenticated connection
ReaderInit ==
    /\ now = StartTime
    /\ millis = 0
    /\ authMsg = NoAuth
    /\ data = WattpilotDataDefault
    /\ history = << >>
    /\ authenticated = TRUE
    /\ hashed_pw = HashedPwOf(Password, "s1")
    /\ wsink = TRUE
    /\ wpConfigured = TRUE
    /\ cpc = "recv"
    /\ serial = ""
    /\ ended = FALSE
    /\ authResp = "authSuccess"
    /\ curMsg = NoFrame
    /\ sleepFor = 0
    /\ connectFails = 0
    /\ locks = NoGuards
    /\ no_db = FALSE
    /\ spc = "wait"
    /\ attempt = 0
    /\ fetched = SolarDataDefault
    /\ solar = SolarDataDefault
    /\ notes = << >>
    /\ wpOut = NoRecord
    /\ reqs = << >>
    /\ nap = 0
    /\ postResp = "none"
    /\ apc = "idle"
    /\ apiOut = NoRecord

ReaderNext ==
    \/ RecvFrame \/ MergeStamp \/ MergeFields
    \/ SchedNext
    \/ ApiNext
    \/ Elapse

ReaderSpec == ReaderInit /\ [][ReaderNext]_vars

----------------------------------------------------------------------------
(* The client on its own, with the content of the auth message.             *)

\* AuthCompose sending again the hash of the connection before
AuthCompose_cached ==
    /\ cpc = "auth_required"
    /\ \/ \E t1 \in Tokens, t2 \in Tokens, t3 \in Randoms :
             /\ hashed_pw' = IF hashed_pw = "" THEN HashedPwOf(Password, serial)
                                                 ELSE hashed_pw
             /\ authMsg' = [token1 |-> t1, token2 |-> t2, token3 |-> t3,
                            hash |-> IF authMsg = NoAuth
                                     THEN AuthHash(t1, t2, t3, hashed_pw')
                                     ELSE authMsg.hash]
             /\ cpc' = "send_auth"
             /\ UNCHANGED << now, millis, data, history, authenticated, wsink, serial,
                             ended, authResp, curMsg, sleepFor, connectFails, locks,
                             wpConfigured, no_db >>
             /\ UNCHANGED schedVars
             /\ UNCHANGED apiVars
       \/ \E streamErr \in BOOLEAN : AuthenticateErr(streamErr)

\* wattpilot.rs lines 206-222: the auth-required message with its tokens,
\* the hashed password (derived when the cached one is empty), token3 and
\* the two hashes
AuthCompose ==
    /\ cpc = "auth_required"
    /\ \/ \E t1 \in Tokens, t2 \in Tokens, t3 \in Randoms :
             /\ hashed_pw' = IF hashed_pw = "" THEN HashedPwOf(Password, serial)
                                                 ELSE hashed_pw
             /\ authMsg' = [token1 |-> t1, token2 |-> t2, token3 |-> t3,
                            hash |-> AuthHash(t1, t2, t3, hashed_pw')]
             /\ cpc' = "send_auth"
             /\ UNCHANGED << now, millis, data, history, authenticated, wsink, serial,
                             ended, authResp, curMsg, sleepFor, connectFails, locks,
                             wpConfigured, no_db >>
             /\ UNCHANGED schedVars
             /\ UNCHANGED apiVars
       \/ \E streamErr \in BOOLEAN : AuthenticateErr(streamErr)

\* the state after Wattpilot::new returned Some
AuthInit ==
    /\ now = StartTime
    /\ millis = 0
    /\ authMsg = NoAuth
    /\ data = WattpilotDataDefault
    /\ history = << >>
    /\ authenticated = FALSE
    /\ hashed_pw = ""
    /\ wsink = FALSE
    /\ wpConfigured = TRUE
    /\ cpc = "top"
    /\ serial = ""
    /\ ended = FALSE
    /\ authResp = "none"
    /\ curMsg = NoFrame
    /\ sleepFor = 0
    /\ connectFails = 0
    /\ locks = NoGuards
    /\ no_db = FALSE
    /\ spc = "wait"
    /\ attempt = 0
    /\ fetched = SolarDataDefault
    /\ solar = SolarDataDefault
    /\ notes = << >>
    /\ wpOut = NoRecord
    /\ reqs = << >>
    /\ nap = 0
    /\ postResp = "none"
    /\ apc = "idle"
    /\ apiOut = NoRecord

AuthNext ==
    \/ ClientTop \/ ConnectFail \/ ConnectOk \/ Hello \/ AuthCompose \/ SendAuth
    \/ AuthResponse \/ ResetAuthenticated \/ RecvFrame \/ Merge \/ RecvErr
    \/ RecvNone \/ SleepDone
    \/ Elapse

AuthSpec == AuthInit /\ [][AuthNext]_vars

----------------------------------------------------------------------------
(* The loop of start with its delay (main.rs lines 134-141), on a clock     *)
(* with milliseconds, in a scheduler without a charger client.  At "wait"   *)
(* nap is 0 until the delay is computed and the delay during the sleep.     *)

U8(x) == x % 256
U16(x) == x % 65536

\* wait with the remainder by 30 left out
wait_nomod(second, millisecond) ==
    LET a == U8(29 - second)
        b == U16(U16(a) * 1000)
        c == U16(b + 1000)
    IN  U16(c - (millisecond % 1000))

\* line 137: (29 - now.second() % 30) as u16 * 1000 + 1000
\*           - now.millisecond() % 1000, in u8 and then in u16
wait(second, millisecond) ==
    LET a == U8(29 - (second % 30))
        b == U16(U16(a) * 1000)
        c == U16(b + 1000)
    IN  U16(c - (millisecond % 1000))

\* by how much a sleep ends after its deadline, and the time a step of the
\* cycle takes (ms)
Lateness == {0, 2}
StepTimes == {499}

ClockAfter(ms) == now * 1000 + millis + ms

\* lines 136-138: the clock is read, the delay computed and the sleep begun
Schedule ==
    /\ spc = "wait"
    /\ nap = 0
    /\ now <= StartTime + 59 + MaxElapsed
    /\ nap' = wait(now % 60, millis)
    /\ UNCHANGED << now, millis, authMsg, data, history, locks, wpConfigured, no_db, spc,
                    attempt, fetched, solar, notes, wpOut, reqs, postResp >>
    /\ UNCHANGED clientVars
    /\ UNCHANGED apiVars

\* lines 138-139: the sleep is over, add_point is called
WakeUp ==
    /\ spc = "wait"
    /\ nap # 0
    /\ \E late \in Lateness :
          /\ now' = ClockAfter(nap + late) \div 1000
          /\ millis' = ClockAfter(nap + late) % 1000
    /\ nap' = 0
    /\ spc' = "get"
    /\ attempt' = 1
    /\ notes' = << >>
    /\ wpOut' = NoRecord
    /\ reqs' = << >>
    /\ UNCHANGED << authMsg, data, history, locks, wpConfigured, no_db, fetched, solar,
                    postResp >>
    /\ UNCHANGED clientVars
    /\ UNCHANGED apiVars

\* time passes while add_point runs
Tick ==
    /\ spc # "wait"
    /\ \E d \in StepTimes :
          /\ ClockAfter(d) \div 1000 <= StartTime + 59 + MaxElapsed
          /\ now' = ClockAfter(d) \div 1000
          /\ millis' = ClockAfter(d) % 1000
    /\ UNCHANGED << authMsg, data, history, locks, wpConfigured, no_db >>
    /\ UNCHANGED clientVars
    /\ UNCHANGED schedVars
    /\ UNCHANGED apiVars

\* the loop is entered at any second of the minute and any millisecond
WaitInit ==
    /\ now \in StartTime .. StartTime + 59
    /\ millis \in 0 .. 999
    /\ authMsg = NoAuth
    /\ data = WattpilotDataDefault
    /\ history = << >>
    /\ authenticated = FALSE
    /\ hashed_pw = ""
    /\ wsink = FALSE
    /\ wpConfigured = FALSE
    /\ cpc = "absent"
    /\ serial = ""
    /\ ended = FALSE
    /\ authResp = "none"
    /\ curMsg = NoFrame
    /\ sleepFor = 0
    /\ connectFails = 0
    /\ locks = NoGuards
    /\ no_db = FALSE
    /\ spc = "wait"
    /\ attempt = 0
    /\ fetched = SolarDataDefault
    /\ solar = SolarDataDefault
    /\ notes = << >>
    /\ wpOut = NoRecord
    /\ reqs = << >>
    /\ nap = 0
    /\ postResp = "none"
    /\ apc = "idle"
    /\ apiOut = NoRecord

WaitNext ==
    \/ Schedule \/ WakeUp
    \/ GetTransportErr \/ GetRetry \/ GetSleepDone \/ GetOk \/ Store \/ SolarRead
    \/ ContactMonitoring \/ Post
    \/ Tick

WaitSpec == WaitInit /\ [][WaitNext]_vars

----------------------------------------------------------------------------
(* The fetch on its own, request by request: get_data with each way a       *)
(* request can end, in a scheduler without a charger client.  reqs records  *)
(* how the requests of the current call ended.                              *)

\* inverter.rs lines 110-132 and 139-160: one iteration of the loop
Respond ==
    /\ spc = "get"
    /\ \E r \in Responses :
          /\ reqs' = Append(reqs, r)
          /\ IF r.end \in TransportErrs
             THEN spc' = "n_fetch" /\ UNCHANGED << fetched, nap >>
             ELSE IF Retried(r)
             THEN spc' = "get_sleep" /\ nap' = sleep_time /\ fetched' = fetched
             ELSE /\ \E power \in LastMeters(SolarJsonOf(BodyOf(r))) :
                       fetched' = SolarDataOf(SolarJsonOf(BodyOf(r)), power, now)
                  /\ spc' = "store"
                  /\ nap' = nap
    /\ UNCHANGED << now, millis, authMsg, data, history, locks, wpConfigured, no_db,
                    attempt, solar,
                    notes, wpOut, postResp >>
    /\ UNCHANGED clientVars
    /\ UNCHANGED apiVars

\* no charger is configured
FetchInit ==
    /\ now = StartTime
    /\ millis = 0
    /\ authMsg = NoAuth
    /\ data = WattpilotDataDefault
    /\ history = << >>
    /\ authenticated = FALSE
    /\ hashed_pw = ""
    /\ wsink = FALSE
    /\ wpConfigured = FALSE
    /\ cpc = "absent"
    /\ serial = ""
    /\ ended = FALSE
    /\ authResp = "none"
    /\ curMsg = NoFrame
    /\ sleepFor = 0
    /\ connectFails = 0
    /\ locks = NoGuards
    /\ no_db \in BOOLEAN
    /\ spc = "wait"
    /\ attempt = 0
    /\ fetched = SolarDataDefault
    /\ solar = SolarDataDefault
    /\ notes = << >>
    /\ wpOut = NoRecord
    /\ reqs = << >>
    /\ nap = 0
    /\ postResp = "none"
    /\ apc = "idle"
    /\ apiOut = NoRecord

FetchNext ==
    \/ Wake \/ Respond \/ GetSleepDone \/ Store \/ SolarRead
    \/ ContactMonitoring \/ Post
    \/ Elapse

FetchSpec == FetchInit /\ [][FetchNext]_vars

----------------------------------------------------------------------------
(* Properties of the merge *)

LastFrame(h) == h[Len(h)]
Arrived == Len(history') = Len(history) + 1

\* the snapshot field of a status key, as the specification names them
FieldValue(d, k) ==
    CASE k = "nrg" -> d.charging_values
      [] k = "car" -> d.car_state
      [] k = "modelStatus" -> d.model_status
      [] k = "wh" -> d.charged_since_connected
      [] k = "tpcm" -> d.tpcm
      [] k = "lps" -> d.lps
      [] k = "ets" -> d.ets

ListedKeys == {"nrg", "car", "modelStatus", "wh", "tpcm", "lps", "ets"}

\* the frame does not parse, has no status object, or its status object has
\* none of the listed keys
Discarded(m) ==
    \/ ~m.parsed
    \/ m.status # "object"
    \/ (DOMAIN m.fields) \cap ListedKeys = {}

\* C8: a frame that fails to parse, has no status object, or whose status
\* object holds none of the allow-listed keys leaves the whole snapshot as it
\* was, timestamp included.
C8_DiscardedFrameLeavesSnapshot ==
    [][(Arrived /\ Discarded(LastFrame(history'))) => data' = data]_vars

\* a discarded frame arrived after a merge, later than the merge
W_C8 ==
    /\ Len(history) >= 2
    /\ Discarded(LastFrame(history))
    /\ data.last_updated # UNIX_EPOCH
    /\ data.last_updated < now

\* key k of frame m holds a value that decodes / that does not decode
Carries(m, k) == m.parsed /\ m.status = "object" /\ k \in DOMAIN m.fields
WellFormed(m, k) == Carries(m, k) /\ DecodeOk(k, m.fields[k])
IllFormed(m, k) == Carries(m, k) /\ ~DecodeOk(k, m.fields[k])

\* an enumeration code that no variant of CarState / ModelStatus has
UnknownCode(m, k) ==
    /\ Carries(m, k)
    /\ m.fields[k].t = "int"
    /\ \/ k = "car" /\ m.fields[k].n \notin 0..5
       \/ k = "modelStatus" /\ m.fields[k].n \notin ((0..20) \cup (22..24))

\* C9: a frame with a well-formed allow-listed field and a malformed one
\* (an unknown code of car or modelStatus included): the well-formed field
\* takes the new value, the malformed field keeps its value, and the
\* timestamp is set to the time of the merge.
C9_ValidAppliedMalformedKept ==
    [][Arrived =>
         LET m == LastFrame(history')
         IN  \A k1, k2 \in ListedKeys :
               (WellFormed(m, k1) /\ (IllFormed(m, k2) \/ UnknownCode(m, k2))) =>
                   /\ FieldValue(data', k1) = Decode(k1, m.fields[k1])
                   /\ FieldValue(data', k2) = FieldValue(data, k2)
                   /\ data'.last_updated = now
                   /\ data'.last_updated >= data.last_updated]_vars

\* nrg arrived beside the unknown car code 6, after car had been set to
\* Charging by an earlier frame, and the clock had advanced in between
W_C9 ==
    /\ Len(history) >= 2
    /\ WellFormed(LastFrame(history), "nrg")
    /\ UnknownCode(LastFrame(history), "car")
    /\ data.car_state = "Charging"
    /\ data.charging_values.pt = 2
    /\ data.last_updated = now
    /\ now > StartTime

\* the value of key k carried by the most recent frame of h that has a
\* decodable value for it, or the default
RECURSIVE LastWrite(_, _)
LastWrite(h, k) ==
    IF h = << >> THEN FieldValue(WattpilotDataDefault, k)
    ELSE IF WellFormed(LastFrame(h), k) THEN Decode(k, LastFrame(h).fields[k])
    ELSE LastWrite(SubSeq(h, 1, Len(h) - 1), k)

\* C10: frames are merged in arrival order and the last write wins field by
\* field: every field holds the value of the most recent frame that carried
\* a decodable value for its key, or the default; and a frame changes no
\* field whose key it does not contain.
C10_LastWriteWins ==
    /\ [](\A k \in ListedKeys : FieldValue(data, k) = LastWrite(history, k))
    /\ [][Arrived =>
            \A k \in ListedKeys :
               ~Carries(LastFrame(history'), k) =>
                   FieldValue(data', k) = FieldValue(data, k)]_vars

\* two frames wrote lps, the second value stands; ets was written by neither
W_C10 ==
    /\ Len(history) >= 2
    /\ WellFormed(history[1], "lps") /\ WellFormed(history[2], "lps")
    /\ history[1].fields["lps"] # history[2].fields["lps"]
    /\ data.lps = history[2].fields["lps"].n
    /\ data.ets = 0

\* the data fields of a snapshot: everything but the timestamp
DataFields(d) == [k \in ListedKeys |-> FieldValue(d, k)]

\* a valid update message: it is not discarded and every listed key it
\* carries decodes
ValidUpdate(m) ==
    /\ ~Discarded(m)
    /\ \A k \in ListedKeys : Carries(m, k) => DecodeOk(k, m.fields[k])

\* C11: merging the same valid update message twice in a row leaves the data
\* fields (charging values, car state, model status, energy, tpcm, lps, ets)
\* as they are after merging it once, from every snapshot of the receive
\* loop that a frame can still follow, also when the second merge is later
\* than the first.
C11_SameMessageTwice ==
    /\ [](Len(history) < MaxMsgs =>
            \A m \in Frames : ValidUpdate(m) =>
             DataFields(read_message(read_message(data, m, now), m, now + 1))
                 = DataFields(read_message(data, m, now)))
    /\ [][(/\ Arrived
           /\ Len(history) >= 1
           /\ LastFrame(history') = LastFrame(history)
           /\ ValidUpdate(LastFrame(history))) =>
              DataFields(data') = DataFields(data)]_vars

\* the same valid message was merged twice, at two different times, and it
\* had changed the energy counter
W_C11 ==
    /\ Len(history) >= 2
    /\ history[Len(history)] = history[Len(history) - 1]
    /\ ValidUpdate(LastFrame(history))
    /\ WellFormed(LastFrame(history), "wh")
    /\ data.charged_since_connected # 0
    /\ data.last_updated = now
    /\ now > StartTime

\* a snapshot a reader may see: the default, or one that carries all the
\* fields of a frame merged at its timestamp
Whole(o) ==
    \/ o = WattpilotDataDefault
    \/ \E m \in StreamFrames :
          Reduced(m) # {} /\ o = read_message(o, m, o.last_updated)

\* C12: the timestamp and the fields of one message are stored under one
\* exclusive write guard: while the merge is between the two, the client
\* alone holds a guard of the snapshot; the scheduler and the API read the
\* snapshot only when no merge is in progress, and every snapshot they
\* obtained carries a timestamp together with the fields merged at it.
C12_MergeAtomicForReaders ==
    /\ [](cpc = "merging" => locks["data"] = {<< "client", "w" >>})
    /\ [](apc = "api_solar" => Whole(apiOut))
    /\ [](spc \in {"post", "n_ok", "n_influx"} => Whole(wpOut))
    /\ [][(\/ (apc = "api_wp" /\ apc' # apc)
           \/ (spc \in {"wp_age", "wp_clone"} /\ spc' # spc)) =>
              cpc # "merging" /\ Whole(data)]_vars

\* the API and the scheduler both hold the snapshot of a merge that was made
\* after the clock had advanced, and the next merge is in progress
W_C12 ==
    /\ apc = "api_solar"
    /\ apiOut.lps = 7
    /\ apiOut.last_updated > StartTime
    /\ spc = "post"
    /\ wpOut = apiOut
    /\ cpc = "merge"

----------------------------------------------------------------------------
(* Properties of the fetch *)

LastReq == reqs[Len(reqs)]
AllStatus == reqs # << >> /\ \A i \in DOMAIN reqs : reqs[i].end = "status"

\* C13: when every request is answered with a non-success status, get_data
\* makes exactly 3 requests, sleeps 100 ms after each and before the next,
\* and returns a failure: the cycle goes to the failure notification and
\* nothing is handed on for storing; there is never a fourth request.
C13_ThreeRequestsThenFailure ==
    /\ [](Len(reqs) <= 3)
    /\ []((AllStatus /\ spc = "get_sleep") => nap = 100)
    /\ []((AllStatus /\ spc \notin {"get", "get_sleep"}) =>
              /\ Len(reqs) = 3
              /\ spc \in {"n_fetch", "wait"}
              /\ fetched = SolarDataDefault
              /\ (spc = "wait" => notes = << 1 >>))
    /\ [][(spc = "get_sleep" /\ spc' = "get") => (nap = 100 /\ Len(reqs) < 3)]_vars

\* three requests were answered with a non-success status and get_data has
\* returned
W_C13 ==
    /\ spc = "n_fetch"
    /\ Len(reqs) = 3
    /\ AllStatus

\* C14: a transport error (the request is not sent, or a body is not read)
\* on attempt 1 or 2 is followed by another attempt, and get_data returns a
\* failure only when 3 attempts have been made.
C14_TransportErrorRetried ==
    /\ (reqs # << >> /\ LastReq.end \in TransportErrs /\ Len(reqs) < 3) =>
           spc \in {"get", "get_sleep"}
    /\ spc = "n_fetch" => Len(reqs) = 3

\* the snapshot of the specification's scenario, without its time
ScenarioSnapshot ==
    [old_inverter_power |-> 100, new_inverter_power |-> 2500,
     both_inverter_power |-> 2600, battery_load_percentage |-> 55,
     autonomy_percent |-> 80, self_consumption_percent |-> 90,
     drain_from_battery |-> -200, drain_from_grid |-> 50, house_consumption |-> 3000]
Values(sd) == [f \in DOMAIN ScenarioSnapshot |-> sd[f]]

\* C20: when the inverter answers with the document
\* {"SecondaryMeters":{"m1":{"P":100}},"inverters":[{"SOC":55}],"Site":{..}}
\* the fetch succeeds at that request: get_data returns the snapshot old=100,
\* new=2500, both=2600, battery=55, autonomy=80, self-consumption=90,
\* battery-drain=-200, grid-drain=50, house-consumption=3000, and it is the
\* stored snapshot from then on.
C20_PowerflowScenario ==
    (reqs # << >> /\ LastReq.body = Powerflow("Site")) =>
        /\ spc \notin {"get_sleep", "n_fetch"}
        /\ IF spc = "store" THEN Values(fetched) = ScenarioSnapshot
           ELSE Values(solar) = ScenarioSnapshot

----------------------------------------------------------------------------
(* Properties of the export cycle *)

Moved == spc' # spc
LastNote(n) == n[Len(n)]
ExportPcs ==
    {"solar_read", "n_solar", "wp_read", "wp_age", "wp_clone", "n_wp", "post",
     "n_ok", "n_influx"}

\* C15: a cycle whose fetch failed sends one notification, with code 1, and
\* ends: nothing was sent before it, the next position is the sleep of the
\* loop, no POST is made, the scheduler holds no guard, and the stored solar
\* snapshot is not written between the start of the fetch and the end of
\* the cycle; code 1 is never one of several notifications.
C15_FetchFailureAborts ==
    /\ [](spc = "n_fetch" => (notes = << >> /\ postResp = "none" /\ Holds("sched") = {}))
    /\ []((notes # << >> /\ notes[1] = 1) => (notes = << 1 >> /\ spc = "wait"))
    /\ [][(spc = "n_fetch" /\ Moved) => (spc' = "wait" /\ notes' = << 1 >>)]_vars
    /\ [][(spc \in {"get", "get_sleep", "n_fetch"}) => solar' = solar]_vars

\* a cycle failed to fetch after an earlier cycle had stored a snapshot
W_C15 ==
    /\ spc = "wait"
    /\ notes = << 1 >>
    /\ solar # SolarDataDefault

\* the test of add_point line 76, at the time the scheduler makes it
Degraded == ~authenticated \/ now - data.last_updated > 30

\* what C16 says of a configured client: the record and the notification
\* follow the flag and the age
ConfiguredRecord ==
    /\ [][(spc = "wp_age" /\ Moved) =>
             spc' = IF Degraded THEN "n_wp" ELSE "wp_clone"]_vars
    /\ [][(spc = "n_wp" /\ Moved) =>
             (spc' = "post" /\ wpOut' = WattpilotDataDefault
              /\ notes' = Append(notes, 2))]_vars
    /\ [][(spc = "wp_clone" /\ Moved) =>
             (spc' = "post" /\ wpOut' = data /\ notes' = notes)]_vars

\* C16 as stated: an absent client, a false flag or a snapshot older than 30
\* seconds each give the all-default record and a degraded notification
\* (code 2) sent for it; otherwise the live snapshot is exported and no
\* notification is sent for the charger.
C16_DefaultRecordNotified ==
    /\ ConfiguredRecord
    /\ [][(~wpConfigured /\ spc' = "post" /\ Moved) =>
             (wpOut' = WattpilotDataDefault /\ Len(notes') = Len(notes) + 1
              /\ LastNote(notes') = 2 /\ spc # "n_solar")]_vars

\* C16 as amended: a false flag or a snapshot older than 30 seconds give the
\* all-default record and a degraded notification; an absent client gives
\* the all-default record and no notification of its own (the only
\* notification sent before the POST is the one for a stale solar
\* snapshot); otherwise the live snapshot is exported and no notification
\* is sent for the charger.
C16_DefaultRecordAbsentSilent ==
    /\ ConfiguredRecord
    /\ [][(~wpConfigured /\ spc' = "post" /\ Moved) =>
             /\ wpOut' = WattpilotDataDefault
             /\ spc \in {"solar_read", "n_solar"}
             /\ notes' = IF spc = "n_solar" THEN << 2 >> ELSE << >>]_vars

\* the default record is exported for a client whose snapshot is of this
\* very second but whose flag is false, and the notification was sent
W_C16 ==
    /\ spc = "post"
    /\ wpConfigured
    /\ ~authenticated
    /\ data.last_updated = now
    /\ wpOut = WattpilotDataDefault
    /\ notes = << 2 >>

\* C17: a solar snapshot older than 30 seconds at line 66 makes the
\* scheduler send a degraded notification (code 2) and go on with the cycle
\* towards the POST with the snapshot as it is; a snapshot aged exactly 30
\* seconds, or less, is not stale and no notification is sent for it.
C17_StaleSolarReportedNotFatal ==
    /\ [][(spc = "solar_read" /\ Moved) =>
             IF now - solar.last_time > 30
             THEN spc' = "n_solar" /\ notes' = notes
             ELSE spc' \in {"wp_read", "post"} /\ notes' = << >>]_vars
    /\ [][(spc = "n_solar" /\ Moved) =>
             (spc' \in {"wp_read", "post"} /\ notes' = << 2 >>)]_vars
    /\ [][(spc \in (ExportPcs \ {"solar_read"})) => solar' = solar]_vars

\* the cycle is at the POST after the notification for a stale solar snapshot
W_C17 ==
    /\ spc = "post"
    /\ ~wpConfigured
    /\ notes = << 2 >>
    /\ now - solar.last_time > 30
    /\ solar # SolarDataDefault

\* C18: a cycle that reached the POST ends with one more notification: code
\* 0 exactly when the POST got a success response, code 2 when it got
\* another response or none; code 1 is not sent, and no code 0 was sent
\* earlier in the cycle.
C18_WriteOutcomeNotified ==
    /\ [](spc \in {"n_ok", "n_influx"} =>
              /\ postResp \in PostOutcomes
              /\ \A i \in DOMAIN notes : notes[i] = 2)
    /\ [][(spc \in {"n_ok", "n_influx"} /\ Moved) =>
             /\ spc' = "wait"
             /\ Len(notes') = Len(notes) + 1
             /\ (LastNote(notes') = 0 <=> postResp = "success")
             /\ (postResp \in {"status", "transport"} => LastNote(notes') = 2)
             /\ LastNote(notes') # 1]_vars
    /\ [][(spc = "post" /\ Moved) => spc' \in {"n_ok", "n_influx"}]_vars

\* the POST got a response with a non-success status and the cycle ended
\* with code 2 after a notification for stale data
W_C18 ==
    /\ spc = "n_influx"
    /\ postResp = "status"
    /\ notes = << 2 >>

\* C19: with NO_DB set, a cycle whose fetch succeeded stores the snapshot,
\* sends one notification, code 0, and ends: no position of the export is
\* entered (no read of the solar or the charger snapshot, no POST), no guard
\* is held and no degraded notification is sent.
C19_DryRunStopsAfterFetch ==
    /\ [](no_db => spc \notin ExportPcs)
    /\ [](spc = "n_nodb" => (no_db /\ notes = << >> /\ Holds("sched") = {}))
    /\ [][(spc = "store" /\ Moved) =>
             (solar' = fetched /\ (no_db => spc' = "n_nodb"))]_vars
    /\ [][(spc = "n_nodb" /\ Moved) => (spc' = "wait" /\ notes' = << 0 >>)]_vars

\* a dry-run cycle ended after its fetch had replaced the snapshot
W_C19 ==
    /\ no_db
    /\ spc = "wait"
    /\ notes = << 0 >>
    /\ solar.last_time >= StartTime
    /\ solar.both_inverter_power = 2600

----------------------------------------------------------------------------
(* Properties of the inverter document *)

\* the snapshot fields whose member is left out or null in the document
Zeroed(obj, k) == k \notin DOMAIN obj \/ obj[k] = JNull
ZeroedFields(doc) ==
    LET m == doc["SecondaryMeters"]["m1"]
        i == doc["inverters"][1]
        s == doc["site"]
    IN  (IF Zeroed(m, "P") THEN {"old_inverter_power"} ELSE {})
        \cup (IF Zeroed(i, "SOC") THEN {"battery_load_percentage"} ELSE {})
        \cup (IF Zeroed(s, "P_Akku") THEN {"drain_from_battery"} ELSE {})
        \cup (IF Zeroed(s, "P_Grid") THEN {"drain_from_grid"} ELSE {})
        \cup (IF Zeroed(s, "P_Load") THEN {"house_consumption"} ELSE {})
        \cup (IF Zeroed(s, "P_PV") THEN {"new_inverter_power"} ELSE {})
        \cup (IF Zeroed(s, "rel_Autonomy") THEN {"autonomy_percent"} ELSE {})
        \cup (IF Zeroed(s, "rel_SelfConsumption") THEN {"self_consumption_percent"}
              ELSE {})

\* the snapshot the last request of get_data led to
Produced == IF spc = "store" THEN fetched ELSE solar

\* C21: a document in which one numeric member (P of the meter, SOC of the
\* inverter, or one of the six members of the site) is left out or null is
\* parsed at that request, without a retry and without a fetch failure, and
\* the snapshot field of that member is zero.
C21_MissingOrNullIsZero ==
    (reqs # << >> /\ LastReq.end = "document" /\ LastReq.body \in OneOffDocs) =>
        /\ spc \notin {"get_sleep", "n_fetch"}
        /\ \A f \in ZeroedFields(LastReq.body) : Produced[f] = 0

\* the document lacks a member of a field declared without #[serde(default)]
LacksRequired(doc) ==
    \/ DOMAIN doc["SecondaryMeters"]["m1"] # DOMAIN MeterObject
    \/ DOMAIN doc["site"] # DOMAIN SiteObject

\* C21 (amended): a document in which one numeric member is null, or in which
\* SOC is left out, is parsed at that request and the snapshot field of that
\* member is zero; a document in which P or one of the six members of the
\* site is left out is not parsed: the request is retried after the sleep,
\* and the fetch fails when it was the third.
C21_NullIsZeroMissingOnlySoc ==
    (reqs # << >> /\ LastReq.end = "document" /\ LastReq.body \in OneOffDocs) =>
        IF LacksRequired(LastReq.body)
        THEN /\ spc \in {"get_sleep", "get", "n_fetch", "wait"}
             /\ spc \in {"n_fetch", "wait"} => (Len(reqs) = 3 /\ notes \in {<< >>, << 1 >>})
             /\ spc = "wait" => notes = << 1 >>
        ELSE /\ spc \notin {"get_sleep", "get", "n_fetch"}
             /\ \A f \in ZeroedFields(LastReq.body) : Produced[f] = 0

\* a document without P_PV was answered with a retry, and the next one, with
\* P_PV null, gave a snapshot whose new-inverter power is zero
W_C21 ==
    /\ Len(reqs) = 2
    /\ reqs[1].body = Document("site", MeterObject, InverterObject,
                               Without(SiteObject, "P_PV"))
    /\ reqs[2].body = Document("site", MeterObject, InverterObject,
                               With(SiteObject, "P_PV", JNull))
    /\ spc = "store"
    /\ fetched.new_inverter_power = 0
    /\ fetched.both_inverter_power = 100

\* C22: every solar snapshot produced by a successful fetch has
\* combined power = old-inverter power + new-inverter power, whatever the
\* powers of the meter and of the site in the document (negative ones
\* included, which are clamped to zero field by field).
C22_CombinedIsSum ==
    \A sd \in {fetched, solar} :
        sd.both_inverter_power = sd.old_inverter_power + sd.new_inverter_power

----------------------------------------------------------------------------
(* Properties of the two snapshots *)

\* C23: the charger snapshot changes only in a step of the client inside
\* read_message, and the solar snapshot only in the scheduler's step that
\* stores the fetched one; the steps of the export (from the read of the
\* solar snapshot to the last notification) and the steps of the API reader
\* leave both snapshots as they are.
C23_SoleWriters ==
    [][/\ (data' # data) =>
              (cpc \in {"merge", "merging"} /\ cpc' # cpc /\ spc' = spc /\ apc' = apc)
       /\ (solar' # solar) =>
              (spc = "store" /\ spc' # spc /\ cpc' = cpc /\ apc' = apc)
       /\ ((spc \in ExportPcs /\ spc' # spc) \/ apc' # apc) =>
              (data' = data /\ solar' = solar)]_vars

\* both snapshots have been written, the scheduler has exported the live
\* charger record and the API reader has cloned it
W_C23 ==
    /\ data # WattpilotDataDefault
    /\ solar # SolarDataDefault
    /\ spc = "n_ok"
    /\ wpOut = data
    /\ apc = "api_solar"
    /\ apiOut = data

----------------------------------------------------------------------------
(* Properties of the handshake *)

Derived == {HashedPwOf(Password, ser) : ser \in Serials}

\* C24: the hashed password is derived at most once: it changes only in the
\* handshake step that has the hello and the auth-required message, only
\* from empty to the value derived from that hello's serial, and a later
\* handshake leaves the cached value as it is, whatever serial its hello
\* carries; the hash of the auth message is computed in each handshake from
\* that handshake's token1, token2 and token3 and the cached value.
C24_HashedPasswordCachedTokensFresh ==
    /\ [](hashed_pw \in Derived \cup {""})
    /\ [][(hashed_pw' # hashed_pw) =>
              /\ hashed_pw = ""
              /\ cpc = "auth_required" /\ cpc' = "send_auth"
              /\ hashed_pw' = HashedPwOf(Password, serial)]_vars
    /\ [][(cpc = "auth_required" /\ cpc' = "send_auth") =>
              /\ hashed_pw' # ""
              /\ hashed_pw # "" => hashed_pw' = hashed_pw
              /\ authMsg'.hash = AuthHash(authMsg'.token1, authMsg'.token2,
                                          authMsg'.token3, hashed_pw')]_vars
    /\ [](cpc \in {"send_auth", "auth_response"} =>
              authMsg.hash = AuthHash(authMsg.token1, authMsg.token2,
                                      authMsg.token3, hashed_pw))

\* a second handshake, whose hello carries another serial and whose tokens
\* are others, has composed its auth message with the value cached by the
\* first
W_C24 ==
    /\ cpc = "send_auth"
    /\ serial = "s2"
    /\ hashed_pw = HashedPwOf(Password, "s1")
    /\ authMsg.token1 = "tb"
    /\ authMsg.token3 = "rb"
    /\ authMsg.hash = AuthHash("tb", authMsg.token2, "rb", HashedPwOf(Password, "s1"))

----------------------------------------------------------------------------
(* Properties of the wake-up delay *)

SecondOfMinute == now % 60
InMinute == SecondOfMinute * 1000 + millis

\* C25: at every second s (0..59) and millisecond ms (0..999) the delay
\* the loop computes is (29 - s mod 30) * 1000 + 1000 - ms as an integer
\* (no step of the u8 and u16 arithmetic wraps), it is at least 1 and at
\* most 30000, and the time within the minute plus the delay is a multiple
\* of 30000 ms; it is the delay the loop then sleeps.
C25_WakeUpDelay ==
    /\ (spc = "wait" /\ nap = 0) =>
           LET w == wait(SecondOfMinute, millis)
           IN  /\ w = (29 - (SecondOfMinute % 30)) * 1000 + 1000 - millis
               /\ w > 0
               /\ w <= 30000
               /\ w < 65536
               /\ (InMinute + w) % 30000 = 0
    /\ (spc = "wait" /\ nap # 0) =>
           /\ nap = wait(SecondOfMinute, millis)
           /\ (InMinute + nap) % 30000 = 0

\* a cycle that started at a boundary has stored a snapshot and ended within
\* the same millisecond, and the loop sleeps the 30000 ms to the next one
W_C25 ==
    /\ spc = "wait"
    /\ solar # SolarDataDefault
    /\ SecondOfMinute \in {0, 30}
    /\ millis = 0
    /\ nap = 30000

----------------------------------------------------------------------------
(* Properties of the notifications of a cycle *)

Notified == Len(notes') = Len(notes) + 1
AllDegraded(n) == \A i \in DOMAIN n : n[i] = 2

\* C26: in a cycle the notification for the stale solar snapshot (2) is the
\* first, the one for the stale or unauthenticated charger (2) comes after
\* it or first, and the one for the outcome of the write is the last: 0 if
\* the write succeeded and 2 if not, whatever was sent before.  A completed
\* cycle has sent between one and three notifications, all but the last
\* being 2.
C26_NotificationOrder ==
    /\ [][Notified =>
             /\ notes' = Append(notes, CodeOf(spc))
             /\ spc = "n_solar" => (notes = << >> /\ spc' # "wait")
             /\ spc = "n_wp" => (notes \in {<< >>, << 2 >>} /\ spc' = "post")
             /\ spc \in {"n_ok", "n_influx"} =>
                    /\ notes \in {<< >>, << 2 >>, << 2, 2 >>}
                    /\ LastNote(notes') = (IF postResp = "success" THEN 0 ELSE 2)
                    /\ spc' = "wait"
             /\ spc \in {"n_fetch", "n_nodb"} => (notes = << >> /\ spc' = "wait")]_vars
    /\ []((spc = "wait" /\ notes # << >>) =>
             /\ Len(notes) \in 1 .. 3
             /\ AllDegraded(SubSeq(notes, 1, Len(notes) - 1))
             /\ Len(notes) > 1 => LastNote(notes) \in {0, 2})
    /\ [](spc \in {"n_ok", "n_influx"} => (spc = "n_ok" <=> postResp = "success"))

\* a cycle has reported the stale solar snapshot and the stale charger and
\* ended with code 0
W_C26 ==
    /\ spc = "wait"
    /\ notes = << 2, 2, 0 >>

----------------------------------------------------------------------------
(* Properties of the charger record before the first merge *)

Unmerged == data.last_updated = UNIX_EPOCH

\* C27: the charger snapshot starts as the default record with the epoch as
\* its timestamp and stays so until a step of read_message merges a frame;
\* while it is so, the scheduler's test of the charger chooses the default
\* record and reports it (code 2), with the client authenticated or not, and
\* the record of a cycle that reaches the POST before the first merge is the
\* default one: car state Unknown, model status
\* NotChargingBecauseNoChargeCtrlData, zero values, tpcm "[]".
C27_EpochUntilFirstMerge ==
    /\ Unmerged
    /\ [](Unmerged => data = WattpilotDataDefault)
    /\ [][(Unmerged /\ ~Unmerged') => (cpc = "merge" /\ cpc' = "recv")]_vars
    /\ [][(Unmerged /\ spc = "wp_age" /\ Moved) => spc' = "n_wp"]_vars
    /\ [][(spc = "n_wp" /\ Moved) =>
              (wpOut' = WattpilotDataDefault /\ LastNote(notes') = 2)]_vars
    /\ []((Unmerged /\ spc \in {"post", "n_ok", "n_influx"}) =>
              /\ wpOut = WattpilotDataDefault
              /\ wpOut.car_state = "Unknown"
              /\ wpOut.model_status = "NotChargingBecauseNoChargeCtrlData"
              /\ wpOut.charging_values = ChargingValuesDefault
              /\ wpOut.tpcm = "[]"
              /\ (wpConfigured => 2 \in Range(notes)))

\* the client is authenticated and in its receive loop, nothing was merged,
\* and the cycle is at the POST with the default record
W_C27 ==
    /\ authenticated
    /\ cpc = "recv"
    /\ Unmerged
    /\ spc = "post"
    /\ wpOut = WattpilotDataDefault

----------------------------------------------------------------------------
(* Properties of the exported solar values *)

\* the snapshot is one that get_data builds from a document, as a whole
OneFetch(sd) ==
    \E json \in InverterDocs : \E power \in LastMeters(json) :
        sd = SolarDataOf(json, power, sd.last_time)

\* C28: the snapshot get_data returns in a cycle is kept as it is until it
\* is stored, the store replaces the whole solar snapshot by it, and from
\* then to the end of the cycle no step of any task writes the solar
\* snapshot: from the read of the snapshot on the scheduler holds its read
\* guard, and the values it exports at the POST are those of one fetch,
\* this cycle's.
C28_ExportedSolarFromThisCycle ==
    /\ [][(spc = "get" /\ spc' = "store") => fetched'.last_time = now]_vars
    /\ [][(spc = "store" /\ ~Moved) => fetched' = fetched]_vars
    /\ [][(spc = "store" /\ Moved) =>
              (solar' = fetched /\ (~no_db => spc' = "solar_read"))]_vars
    /\ [][(spc \in ExportPcs) => solar' = solar]_vars
    /\ [][(solar' # solar) => solar'.last_time >= solar.last_time]_vars
    /\ [](spc \in ExportPcs \ {"solar_read"} => << "sched", "r" >> \in locks.solar)
    /\ [](spc \in ExportPcs =>
             /\ OneFetch(solar)
             /\ solar.last_time \in StartTime .. now)

\* the cycle is at the POST with the snapshot of a fetch made after the
\* start, while the API reader is about to read the solar snapshot and the
\* client waits to merge a frame
W_C28 ==
    /\ spc = "post"
    /\ solar.last_time > StartTime
    /\ solar.both_inverter_power = 2600
    /\ apc = "api_solar"
    /\ cpc = "merge"

----------------------------------------------------------------------------
(* Properties of the two tasks *)

ClientSuspendedPcs == {"connect", "recv"} \cup HandshakePcs \cup SleepPcs

\* C1: from every handshake failure (authenticate returned an error) the
\* client marks itself unauthenticated, sleeps 3 seconds and eventually
\* starts a new connection attempt.
C1_HandshakeFailureReconnects ==
    /\ (cpc = "auth_failed") ~> (cpc = "sleep_auth" /\ ~authenticated /\ sleepFor = 3)
    /\ (cpc = "auth_failed") ~> (cpc = "connect")

\* C2: whatever the client does, every scheduler cycle that starts eventually
\* finishes, having sent at least one health-check notification.
C2_SchedulerCycleFinishes ==
    (spc # "wait") ~> (spc = "wait" /\ Len(notes) >= 1)

\* C3: the client is in the receive loop only if the response to the auth
\* message was authSuccess, and then (no receive error since) the flag is
\* true; authError and any other type do not lead into the receive loop.
C3_StreamingOnlyAfterAuthSuccess ==
    cpc \in StreamPcs => (authResp = "authSuccess" /\ (~ended => authenticated))

\* C4: a task that is suspended on a connect, a WebSocket send or receive,
\* an HTTP request or a sleep holds no guard of the client's lock, of the
\* charger snapshot's lock or of the solar snapshot's lock.
C4_NoGuardWhileSuspended ==
    /\ cpc \in ClientSuspendedPcs => Holds("client") = {}
    /\ spc \in (IoPcs \cup SchedSleepPcs) => Holds("sched") = {}

\* C5: after a failed connection attempt the client sleeps 3 seconds and
\* connects again, however many attempts have failed in a row.
C5_ConnectRetriedWithoutBound ==
    /\ [](cpc = "sleep_connect" => sleepFor = 3)
    /\ \A n \in 1..MaxConnectFails :
          (cpc = "sleep_connect" /\ connectFails = n)
              ~> (cpc = "connect" /\ connectFails = n)

\* a connection attempt that follows a failed one
W_C5 == cpc = "connect" /\ connectFails >= 1

\* C6: a receive error on the connection in use ends the streaming: the flag
\* is false once the error is handled, no frame of that connection is merged
\* after it, and a new connection attempt follows.
C6_ReceiveErrorEndsStreaming ==
    /\ []((ended /\ cpc \in {"recv", "sleep_stream"}) => ~authenticated)
    /\ [][(ended /\ cpc \in (StreamPcs \cup {"sleep_stream"})) => data' = data]_vars
    /\ (cpc = "recv_err") ~> (cpc = "connect")

\* the client reconnects after a receive error on an authenticated connection
W_C6 ==
    /\ cpc = "connect"
    /\ ended
    /\ authResp = "authSuccess"
    /\ ~authenticated

\* C7 as stated: whenever the client has left the receive loop and waits to
\* reconnect, the flag is false.
C7_FlagFalseWhileWaiting ==
    cpc = "sleep_stream" => ~authenticated

\* C7 as amended: the flag is false while the client waits to reconnect after
\* a receive error, and from the start of the next loop iteration on, that
\* is during every connection attempt and handshake.
C7_FlagFalseFromNextAttempt ==
    /\ (cpc = "sleep_stream" /\ ended) => ~authenticated
    /\ cpc \in ({"connect", "sleep_connect", "auth_failed", "sleep_auth"}
                 \cup HandshakePcs) => ~authenticated

\* the client connects again after an authenticated connection ended without
\* an error
W_C7 ==
    /\ cpc = "connect"
    /\ authResp = "authSuccess"
    /\ ~ended
    /\ ~authenticated

====
